---------------------------- MODULE Spec2Model ----------------------------
(***************************************************************************)
(* POIS ESAM server: the rule matcher (rules.rs), the ESAM request         *)
(* pipeline (main.rs, esam.rs, event_logging.rs), the channel/rule store   *)
(* it reads (main.rs CRUD handlers), and the SCTE-35 section builders and  *)
(* decoders (scte35.rs, esam.rs, tools_api.rs).                            *)
(*                                                                         *)
(* Strings are sequences of byte values, so prefix/suffix tests, ASCII     *)
(* case folding and lexicographic comparison are computed as the code      *)
(* computes them.  JSON objects are functions from their present keys.     *)
(* Option<T> is a sequence of length 0 (None) or 1 (Some).                 *)
(***************************************************************************)
EXTENDS Integers, Sequences, FiniteSets, TLC

VARIABLES
    m_pc,        \* matcher harness: "start" before rule_matches ran, "done" after
    m_doc,       \* the rule's match document (serde_json::Value)
    m_facts,     \* the facts map handed to rule_matches
    m_matched,   \* the value rule_matches returned
    channels,    \* table channels: row i has id i
    rules,       \* table rules: row i has id i
    events,      \* table esam_events, in insertion order
    req,         \* the ESAM request task in flight (handle_esam_impl), or idle
    calls,       \* HTTP calls accepted so far
    clock,       \* wall-clock time, in ticks of ten seconds
    c_pc,        \* codec harness: "request", "call", "section", "failed", "esam", "tools"
    c_in,        \* the BuildRequest, or what names a hand-assembled section
    c_sec,       \* the section as Base64 text
    c_out        \* what the decoder that ran returned for the section

match_vars == <<m_pc, m_doc, m_facts, m_matched>>
store_vars == <<channels, rules>>
pipe_vars == <<channels, rules, events, req, calls>>
codec_vars == <<c_pc, c_in, c_sec, c_out>>

-----------------------------------------------------------------------------
(* Bounds *)

\* longest anyOf / allOf array enumerated for the matcher
MaxConds == 2
\* rows the channels table may grow to
MaxChannels == 2
\* rows the rules table may grow to
MaxRules == 2
\* HTTP calls (CRUD calls and ESAM requests) followed after the seeding of the
\* database
MaxCalls == 3
\* the wall clock is followed for this many ticks of ten seconds
MaxClock == 5

-----------------------------------------------------------------------------
(* Option and JSON access *)

None == <<>>
Some(x) == <<x>>

\* serde_json Value::get / Map::get on an object: the value under key k, if any
Get(obj, k) == IF k \in DOMAIN obj THEN Some(obj[k]) ELSE None

\* {} as a JSON object
EmptyObj == [k \in {} |-> {}]

-----------------------------------------------------------------------------
(* String literals of the source, as byte sequences *)

\* "" (unwrap_or default of utcBetween.start)
S_empty == <<>>
\* "~" (unwrap_or default of utcBetween.end)
S_tilde == <<126>>
\* "noop"
S_noop == <<110, 111, 111, 112>>
\* "replace"
S_replace == <<114, 101, 112, 108, 97, 99, 101>>
\* "delete"
S_delete == <<100, 101, 108, 101, 116, 101>>
\* "unknown"
S_unknown == <<117, 110, 107, 110, 111, 119, 110>>
\* "1970-01-01T00:00:00Z"
S_epoch == <<49, 57, 55, 48, 45, 48, 49, 45, 48, 49, 84, 48, 48, 58, 48, 48, 58, 48, 48, 90>>
\* "filtered signal"
S_filtered == <<102, 105, 108, 116, 101, 114, 101, 100, 32, 115, 105, 103, 110, 97, 108>>
\* "replaced signal"
S_replaced == <<114, 101, 112, 108, 97, 99, 101, 100, 32, 115, 105, 103, 110, 97, 108>>
\* "pass-through"
S_pass == <<112, 97, 115, 115, 45, 116, 104, 114, 111, 117, 103, 104>>

(* Inputs used by the enumerations below *)
\* "time_signal"
S_time_signal == <<116, 105, 109, 101, 95, 115, 105, 103, 110, 97, 108>>
\* "TIME_SIGNAL"
S_TIME_SIGNAL == <<84, 73, 77, 69, 95, 83, 73, 71, 78, 65, 76>>
\* "splice_insert"
S_splice_insert == <<115, 112, 108, 105, 99, 101, 95, 105, 110, 115, 101, 114, 116>>
\* "splice_null"
S_splice_null == <<115, 112, 108, 105, 99, 101, 95, 110, 117, 108, 108>>
\* "splice_schedule"
S_splice_schedule == <<115, 112, 108, 105, 99, 101, 95, 115, 99, 104, 101, 100, 117, 108, 101>>
\* "bandwidth_reservation"
S_bandwidth_reservation == <<98, 97, 110, 100, 119, 105, 100, 116, 104, 95, 114, 101, 115, 101, 114, 118, 97, 116, 105, 111, 110>>
\* "private_command"
S_private_command == <<112, 114, 105, 118, 97, 116, 101, 95, 99, 111, 109, 109, 97, 110, 100>>
\* "time_signal_immediate"
S_time_signal_immediate == <<116, 105, 109, 101, 95, 115, 105, 103, 110, 97, 108, 95, 105, 109, 109, 101, 100, 105, 97, 116, 101>>
\* "splice_insert_out"
S_splice_insert_out == <<115, 112, 108, 105, 99, 101, 95, 105, 110, 115, 101, 114, 116, 95, 111, 117, 116>>
\* "bogus"
S_bogus == <<98, 111, 103, 117, 115>>
\* "!!!!"
S_b64_bad == <<33, 33, 33, 33>>
\* "AAAA"
S_b64_zero == <<65, 65, 65, 65>>
\* "keep me"
S_operator_note == <<107, 101, 101, 112, 32, 109, 101>>
\* "0x34"
S_0x34 == <<48, 120, 51, 52>>
\* "0x10"
S_0x10 == <<48, 120, 49, 48>>
\* "ACQ-123-OUT"
S_ACQ_123_OUT == <<65, 67, 81, 45, 49, 50, 51, 45, 79, 85, 84>>
\* "ACQ-OUT-EXTRA"
S_ACQ_OUT_EXTRA == <<65, 67, 81, 45, 79, 85, 84, 45, 69, 88, 84, 82, 65>>
\* "0"
S_0 == <<48>>
\* "-5"
S_minus5 == <<45, 53>>
\* "5000"
S_5000 == <<53, 48, 48, 48>>
\* "many"
S_many == <<109, 97, 110, 121>>

\* "ACQ-OUT"
S_ACQ_OUT == <<65, 67, 81, 45, 79, 85, 84>>
\* "ACQ--OUT"
S_ACQ__OUT == <<65, 67, 81, 45, 45, 79, 85, 84>>

\* "ACQ-*-OUT"
S_ACQ_star_OUT == <<65, 67, 81, 45, 42, 45, 79, 85, 84>>
\* "2024-06-01T12:00:00Z"
S_utc2024 == <<50, 48, 50, 52, 45, 48, 54, 45, 48, 49, 84, 49, 50, 58, 48, 48, 58, 48, 48, 90>>
\* "2024-01-01T00:00:00Z"
S_win_start == <<50, 48, 50, 52, 45, 48, 49, 45, 48, 49, 84, 48, 48, 58, 48, 48, 58, 48, 48, 90>>
\* "ASCII:AD1"
S_upid == <<65, 83, 67, 73, 73, 58, 65, 68, 49>>
\* "ASCII:*"
S_upid_pat == <<65, 83, 67, 73, 73, 58, 42>>
\* "default"
S_default == <<100, 101, 102, 97, 117, 108, 116>>
\* "cnn"
S_cnn == <<99, 110, 110>>
\* "AcquiredSignal"
N_AcquiredSignal == <<65, 99, 113, 117, 105, 114, 101, 100, 83, 105, 103, 110, 97, 108>>
\* "UTCPoint"
N_UTCPoint == <<85, 84, 67, 80, 111, 105, 110, 116>>
\* "BinaryData"
N_BinaryData == <<66, 105, 110, 97, 114, 121, 68, 97, 116, 97>>
\* "sig:UTCPoint"
N_sig_UTCPoint == <<115, 105, 103, 58, 85, 84, 67, 80, 111, 105, 110, 116>>
\* "sig:BinaryData"
N_sig_BinaryData == <<115, 105, 103, 58, 66, 105, 110, 97, 114, 121, 68, 97, 116, 97>>
\* "acquisitionSignalID"
K_acquisitionSignalID == <<97, 99, 113, 117, 105, 115, 105, 116, 105, 111, 110, 83, 105, 103, 110, 97, 108, 73, 68>>
\* "utcPoint"
K_utcPoint == <<117, 116, 99, 80, 111, 105, 110, 116>>
\* "/DA0AA==" (an inbound Base64 payload)
S_b64_in == <<47, 68, 65, 48, 65, 65, 61, 61>>
\* "/DB+" (a Base64 payload stored in a rule's params)
S_b64_rule == <<47, 68, 66, 43>>
\* "&amp;"
S_amp == <<38, 97, 109, 112, 59>>
\* "&lt;"
S_lt == <<38, 108, 116, 59>>
\* "&gt;"
S_gt == <<38, 103, 116, 59>>
\* "&quot;"
S_quot == <<38, 113, 117, 111, 116, 59>>
\* "&apos;"
S_apos == <<38, 97, 112, 111, 115, 59>>

-----------------------------------------------------------------------------
(* str primitives used by rules.rs *)

\* str::starts_with
starts_with(text, pre) ==
    /\ Len(pre) <= Len(text)
    /\ SubSeq(text, 1, Len(pre)) = pre

\* str::ends_with
ends_with(text, post) ==
    /\ Len(post) <= Len(text)
    /\ SubSeq(text, Len(text) - Len(post) + 1, Len(text)) = post

\* u8::to_ascii_lowercase
to_ascii_lowercase(b) == IF b >= 65 /\ b <= 90 THEN b + 32 ELSE b

\* str::eq_ignore_ascii_case
eq_ignore_ascii_case(a, b) ==
    /\ Len(a) = Len(b)
    /\ \A i \in 1..Len(a) : to_ascii_lowercase(a[i]) = to_ascii_lowercase(b[i])

\* a <= b in the byte-wise lexicographic order of str (Ord for str)
RECURSIVE str_le(_, _)
str_le(a, b) ==
    IF a = <<>> THEN TRUE
    ELSE IF b = <<>> THEN FALSE
    ELSE IF a[1] < b[1] THEN TRUE
    ELSE IF a[1] > b[1] THEN FALSE
    ELSE str_le(Tail(a), Tail(b))

-----------------------------------------------------------------------------
(* rules.rs *)

\* glob_match: split the pattern at its first '*' (byte 42)
glob_match(pat, text) ==
    IF \E i \in 1..Len(pat) : pat[i] = 42
    THEN LET i    == CHOOSE j \in 1..Len(pat) :
                        /\ pat[j] = 42
                        /\ \A k \in 1..(j - 1) : pat[k] # 42
             pre  == SubSeq(pat, 1, i - 1)
             post == SubSeq(pat, i + 1, Len(pat))
         IN  starts_with(text, pre) /\ ends_with(text, post)
    ELSE pat = text

\* eval: the first recognised atom whose fact exists decides, alone
eval(cond, facts) ==
    IF "acquisitionSignalID" \in DOMAIN cond /\ "acquisitionSignalID" \in DOMAIN facts
    THEN glob_match(cond["acquisitionSignalID"], facts["acquisitionSignalID"])
    ELSE IF "scte35.command" \in DOMAIN cond /\ "scte35.command" \in DOMAIN facts
    THEN eq_ignore_ascii_case(facts["scte35.command"], cond["scte35.command"])
    ELSE IF "scte35.segmentation_type_id" \in DOMAIN cond
            /\ "scte35.segmentation_type_id" \in DOMAIN facts
    THEN eq_ignore_ascii_case(facts["scte35.segmentation_type_id"],
                              cond["scte35.segmentation_type_id"])
    ELSE IF "scte35.segmentation_upid" \in DOMAIN cond
            /\ "scte35.segmentation_upid" \in DOMAIN facts
    THEN glob_match(cond["scte35.segmentation_upid"], facts["scte35.segmentation_upid"])
    ELSE IF "utcBetween" \in DOMAIN cond /\ "utcPoint" \in DOMAIN facts
    THEN LET win   == cond["utcBetween"]
             start == IF "start" \in DOMAIN win THEN win["start"] ELSE S_empty
             end   == IF "end" \in DOMAIN win THEN win["end"] ELSE S_tilde
             u     == facts["utcPoint"]
         IN  str_le(start, u) /\ str_le(u, end)
    ELSE FALSE

\* arr.iter().any(|c| eval(c, facts)), from element i on
RECURSIVE iter_any(_, _, _)
iter_any(arr, facts, i) ==
    IF i > Len(arr) THEN FALSE
    ELSE IF eval(arr[i], facts) THEN TRUE
    ELSE iter_any(arr, facts, i + 1)

\* arr.iter().all(|c| eval(c, facts)), from element i on
RECURSIVE iter_all(_, _, _)
iter_all(arr, facts, i) ==
    IF i > Len(arr) THEN TRUE
    ELSE IF ~eval(arr[i], facts) THEN FALSE
    ELSE iter_all(arr, facts, i + 1)

\* rule_matches with the two results combined by && instead of ||
rule_matches_and(match_json, facts) ==
    LET any_ok == IF "anyOf" \in DOMAIN match_json
                  THEN iter_any(match_json["anyOf"], facts, 1)
                  ELSE FALSE
        all_ok == IF "allOf" \in DOMAIN match_json
                  THEN iter_all(match_json["allOf"], facts, 1)
                  ELSE TRUE
    IN  any_ok /\ all_ok

\* rule_matches: any_ok || all_ok
rule_matches(match_json, facts) ==
    LET any_ok == IF "anyOf" \in DOMAIN match_json
                  THEN iter_any(match_json["anyOf"], facts, 1)
                  ELSE FALSE
        all_ok == IF "allOf" \in DOMAIN match_json
                  THEN iter_all(match_json["allOf"], facts, 1)
                  ELSE TRUE
    IN  any_ok \/ all_ok

-----------------------------------------------------------------------------
(* Inputs of the matcher harness *)

\* the condition atoms eval recognises
AtomKeys == {"acquisitionSignalID", "scte35.command", "scte35.segmentation_type_id",
             "scte35.segmentation_upid", "utcBetween"}

\* the fact an atom is compared with
FactKeyOf(k) == IF k = "utcBetween" THEN "utcPoint" ELSE k

\* one value per atom, as a rule author writes it
AtomValue(k) ==
    CASE k = "acquisitionSignalID"         -> S_ACQ_star_OUT
      [] k = "scte35.command"              -> S_TIME_SIGNAL
      [] k = "scte35.segmentation_type_id" -> S_0x34
      [] k = "scte35.segmentation_upid"    -> S_upid_pat
      [] k = "utcBetween"                  -> [start |-> S_win_start]

\* the condition object carrying exactly the atoms K
CondOf(K) == [k \in K |-> AtomValue(k)]

\* every combination of atoms in one condition object (the empty object included)
AllAtomConds == {CondOf(K) : K \in SUBSET AtomKeys}

\* conditions used inside longer arrays
SmallConds == {CondOf({"acquisitionSignalID"}), CondOf({"scte35.command"}),
               CondOf({"scte35.segmentation_type_id"}),
               CondOf({"scte35.command", "scte35.segmentation_type_id"})}

SmallArrays == UNION {[1..n -> SmallConds] : n \in 0..MaxConds}

OptArrays == {None} \cup {Some(a) : a \in SmallArrays}

\* the match document with the given optional anyOf and allOf arrays
DocOf(any, all) ==
    [k \in (IF any = None THEN {} ELSE {"anyOf"}) \cup (IF all = None THEN {} ELSE {"allOf"})
        |-> IF k = "anyOf" THEN any[1] ELSE all[1]]

MatchDocs ==
    {DocOf(a, b) : a \in OptArrays, b \in OptArrays}
        \cup {DocOf(None, Some(<<c>>)) : c \in AllAtomConds}

\* facts as extract_facts produces them: three keys always, two only when decoded
FactsOf(acq, cmd, typ, upid, utc) ==
    [k \in {"acquisitionSignalID", "scte35.command", "utcPoint"}
           \cup (IF typ = None THEN {} ELSE {"scte35.segmentation_type_id"})
           \cup (IF upid = None THEN {} ELSE {"scte35.segmentation_upid"})
        |-> CASE k = "acquisitionSignalID"         -> acq
              [] k = "scte35.command"              -> cmd
              [] k = "utcPoint"                    -> utc
              [] k = "scte35.segmentation_type_id" -> typ[1]
              [] k = "scte35.segmentation_upid"    -> upid[1]]

MatchFacts ==
    {FactsOf(acq, cmd, typ, upid, utc) :
        acq \in {S_ACQ_123_OUT, S_ACQ_OUT_EXTRA},
        cmd \in {S_time_signal, S_splice_insert},
        typ \in {None, Some(S_0x34), Some(S_0x10)},
        upid \in {None, Some(S_upid)},
        utc \in {S_epoch, S_utc2024}}

-----------------------------------------------------------------------------
(* scte35.rs: BitWriter, CRC-32 and the section builders *)

\* The bytes of a BitWriter are kept as their bits, most significant first, so
\* bits has eight entries per byte pushed.  A u64 is its 64 bits, most
\* significant first: TLC's integers are narrower than the 33- and 40-bit
\* fields written here.

\* a function on 1..n as the tuple of its values, evaluated once
Tup(f, n) == SubSeq(f, 1, n)

\* v as u64, for v below 2^31
U64(v) == Tup([i \in 1..64 |-> IF 64 - i >= 31 THEN 0 ELSE (v \div 2^(64 - i)) % 2], 64)

\* the value of a bit string of at most 31 bits
RECURSIVE nat_of(_)
nat_of(bits) ==
    IF bits = <<>> THEN 0
    ELSE 2 * nat_of(SubSeq(bits, 1, Len(bits) - 1)) + bits[Len(bits)]

\* the low n bits of a u64, most significant first
low_bits(val, n) == SubSeq(val, 64 - n + 1, 64)

\* a bit string of at most 64 bits, zero-extended to u64
zext(bits) ==
    Tup([i \in 1..64 |-> IF i <= 64 - Len(bits) THEN 0 ELSE bits[i - (64 - Len(bits))]], 64)

\* the bytes of a bit string whose length is a multiple of eight
bytes_of(bits) ==
    Tup([j \in 1..(Len(bits) \div 8) |-> nat_of(SubSeq(bits, 8 * j - 7, 8 * j))],
        Len(bits) \div 8)

\* the bits of a byte string
bits_of(bytes) ==
    Tup([i \in 1..(8 * Len(bytes)) |->
            (bytes[(i + 7) \div 8] \div 2^((8 * Len(bytes) - i) % 8)) % 2],
        8 * Len(bytes))

\* BitWriter::new()
BitWriter_new == [bits |-> <<>>, bitpos |-> 0]

\* BitWriter::write_bits(val, nbits): push zero bytes as needed and OR each bit
\* of the low nbits of val in at bitpos
write_bits(w, val, nbits) ==
    LET end == w.bitpos + nbits
        grown == 8 * ((end + 7) \div 8)
        newlen == IF grown > Len(w.bits) THEN grown ELSE Len(w.bits)
    IN  [bits |-> Tup([i \in 1..newlen |->
                          LET old == IF i <= Len(w.bits) THEN w.bits[i] ELSE 0
                          IN  IF i > w.bitpos /\ i <= end /\ val[64 - (end - i)] = 1
                              THEN 1 ELSE old], newlen),
         bitpos |-> end]

\* a run of u1/u2/.../u40 calls: fields is a sequence of <<value, nbits>>
RECURSIVE emit(_, _)
emit(w, fields) ==
    IF fields = <<>> \/ w.bitpos < 0 THEN w
    ELSE emit(write_bits(w, fields[1][1], fields[1][2]), Tail(fields))

\* patch_u8 / patch_u12 / patch_u16 over patch_u1: bit i of the field is set to
\* (val >> (nbits - 1 - i)) & 1 where its byte exists
patch_bits(w, bitpos, val, nbits) ==
    [w EXCEPT !.bits =
        Tup([i \in 1..Len(w.bits) |->
                IF i > bitpos /\ i <= bitpos + nbits
                THEN (val \div 2^(bitpos + nbits - i)) % 2
                ELSE w.bits[i]], Len(w.bits))]

\* 0x04C11DB7
CRC_POLY == 79764919

\* one round of the inner loop of compute_crc32 on the 32-bit register
crc_shift(crc) ==
    LET shl == Tail(crc) \o <<0>>
        poly == low_bits(U64(CRC_POLY), 32)
    IN  IF crc[1] = 1 THEN Tup([i \in 1..32 |-> (shl[i] + poly[i]) % 2], 32) ELSE shl

RECURSIVE crc_rounds(_, _)
crc_rounds(crc, n) == IF n = 0 \/ Len(crc) # 32 THEN crc ELSE crc_rounds(crc_shift(crc), n - 1)

\* compute_crc32 from byte i on: crc ^= byte << 24, then eight rounds
RECURSIVE crc_from(_, _, _)
crc_from(data, i, crc) ==
    IF i > Len(data) \/ Len(crc) # 32 THEN crc
    ELSE LET b == bits_of(<<data[i]>>)
             x == Tup([k \in 1..32 |-> IF k <= 8 THEN (crc[k] + b[k]) % 2 ELSE crc[k]], 32)
         IN  crc_from(data, i + 1, crc_rounds(x, 8))


\* a CRC whose register starts at zero
compute_crc32_zero_init(data) == crc_from(data, 1, Tup([k \in 1..32 |-> 0], 32))

\* compute_crc32: MPEG-2 CRC, initial value 0xFFFFFFFF, no final XOR
compute_crc32(data) == crc_from(data, 1, Tup([k \in 1..32 |-> 1], 32))

\* finalize_with_crc32: pad with 1 bits to a byte boundary, patch section_length
\* (bytes after the length field, CRC included), append the CRC of all bytes
finalize_with_crc32(w, section_length_pos) ==
    LET Crc(w2) == bytes_of(write_bits(w2, zext(compute_crc32(bytes_of(w2.bits))), 32).bits)
        Length(w1) ==
            Crc(patch_bits(w1, section_length_pos,
                           (((Len(w1.bits) \div 8) - ((section_length_pos + 12) \div 8)) + 4)
                              % 65536,
                           12))
    IN  Length(write_bits(w, Tup([i \in 1..64 |-> 1], 64), (8 - (w.bitpos % 8)) % 8))

\* the value of an ASCII hex digit, if it is one
hex_val(c) ==
    IF c >= 48 /\ c <= 57 THEN Some(c - 48)
    ELSE IF c >= 65 /\ c <= 70 THEN Some(c - 55)
    ELSE IF c >= 97 /\ c <= 102 THEN Some(c - 87)
    ELSE None

\* u8::from_str_radix(two bytes, 16): two hex digits, or '+' and one hex digit
from_str_radix2(a, b) ==
    IF hex_val(b) = None THEN None
    ELSE IF a = 43 THEN hex_val(b)
    ELSE IF hex_val(a) = None THEN None
    ELSE Some((16 * hex_val(a)[1]) + hex_val(b)[1])

RECURSIVE hex_pairs(_)
hex_pairs(s) ==
    IF s = <<>> THEN Some(<<>>)
    ELSE LET b == from_str_radix2(s[1], s[2])
             r == hex_pairs(SubSeq(s, 3, Len(s)))
         IN  IF b = None \/ r = None THEN None ELSE Some(<<b[1]>> \o r[1])

\* hex_decode: '-', ' ' and ':' are dropped; None for an odd length or a pair
\* that is not hex
hex_decode(s) ==
    LET t == SelectSeq(s, LAMBDA c : c \notin {45, 32, 58})
    IN  IF Len(t) % 2 # 0 THEN None ELSE hex_pairs(t)

\* parse_uuid: '-' and ' ' are dropped; 32 hex digits
parse_uuid(s) ==
    LET t == SelectSeq(s, LAMBDA c : c \notin {45, 32})
    IN  IF Len(t) # 32 THEN None ELSE hex_decode(t)

\* encode_upid: hex for types 0x08 and 0x09, a UUID for 0x0B, each falling back
\* to the text's bytes; the text's bytes for every other type
encode_upid(upid_type, value) ==
    LET OrRaw(r) == IF r = None THEN value ELSE r[1]
    IN  IF upid_type \in {8, 9} THEN OrRaw(hex_decode(value))
        ELSE IF upid_type = 11 THEN OrRaw(parse_uuid(value))
        ELSE value

\* b"POIS-OUT"
S_POIS_OUT == <<80, 79, 73, 83, 45, 79, 85, 84>>

\* the bytes of a byte string as u8 fields
byte_fields(bytes) == Tup([i \in 1..Len(bytes) |-> <<U64(bytes[i]), 8>>], Len(bytes))

\* add_segmentation_descriptor: descriptor_loop_length, then one
\* segmentation_descriptor (tag 0x02), both lengths patched afterwards
add_segmentation_descriptor(w, duration_90k, seg_type_id, upid_type, upid_value) ==
    LET LoopLength(w3) ==
            patch_bits(w3, w.bitpos, ((w3.bitpos - (w.bitpos + 16)) \div 8) % 65536, 16)
        SegLength(w2, seg_len_pos) ==
            LoopLength(patch_bits(w2, seg_len_pos,
                                  ((w2.bitpos - (seg_len_pos + 8)) \div 8) % 256, 8))
        Descriptor(w1, upid_type_val, upid_bytes, seg_type) ==
            SegLength(
              emit(w1,
                << <<U64(0), 8>>,                      \* length, patched afterwards
                   <<U64(1129661769), 32>>,            \* "CUEI"
                   <<U64(1), 32>>,                     \* segmentation_event_id
                   <<U64(0), 1>>, <<U64(0), 7>>,       \* cancel indicator, reserved
                   <<U64(1), 1>>,                      \* program_segmentation_flag
                   <<U64(IF duration_90k = None THEN 0 ELSE 1), 1>>,
                   <<U64(1), 1>>, <<U64(0), 5>> >>     \* delivery_not_restricted, reserved
                \o (IF duration_90k = None THEN <<>> ELSE << <<duration_90k[1], 40>> >>)
                \o << <<U64(upid_type_val), 8>>, <<U64(Len(upid_bytes) % 256), 8>> >>
                \o byte_fields(upid_bytes)
                \o << <<U64(seg_type), 8>>, <<U64(0), 8>>, <<U64(0), 8>> >>
                \o (IF seg_type \in {52, 54, 56, 58}
                    THEN << <<U64(0), 8>>, <<U64(0), 8>> >> ELSE <<>>)),
              w1.bitpos)
        Upid(w1, upid_type_val) ==
            Descriptor(w1, upid_type_val,
                       IF upid_value = None THEN S_POIS_OUT
                       ELSE encode_upid(upid_type_val, upid_value[1]),
                       IF seg_type_id = None THEN 16 ELSE seg_type_id[1])
    IN  Upid(emit(w, << <<U64(0), 16>>, <<U64(2), 8>> >>),
             IF upid_type = None THEN 12 ELSE upid_type[1])

\* the fields every builder writes first: table_id 0xFC, the section header with
\* section_length reserved at bit 12, and the splice_info_section header up to
\* tier; splice_command_length is reserved next, at bit 92
section_prefix ==
    emit(BitWriter_new,
         << <<U64(252), 8>>, <<U64(0), 1>>, <<U64(0), 1>>, <<U64(3), 2>>, <<U64(0), 12>>,
            <<U64(0), 8>>, <<U64(0), 1>>, <<U64(0), 6>>, <<U64(0), 33>>, <<U64(0), 8>>,
            <<U64(4095), 12>>,
            <<U64(0), 12>> >>)

\* where reserve_u12 put section_length
SectionLengthPos == 12


\* a builder that writes the seconds where the 90 kHz ticks belong
dur90k_seconds(duration_s) == U64(duration_s)

\* duration_s as u64 * 90000, for duration_s below 2^31: the product is formed
\* byte by byte of duration_s, least significant first, so that no
\* intermediate value leaves 31 bits
dur90k(duration_s) ==
    LET p0 == (duration_s % 256) * 90000
        p1 == (((duration_s \div 256) % 256) * 90000) + (p0 \div 256)
        p2 == (((duration_s \div 65536) % 256) * 90000) + (p1 \div 256)
        p3 == ((duration_s \div 16777216) * 90000) + (p2 \div 256)
        bytes == <<0, 0, (p3 \div 65536) % 256, (p3 \div 256) % 256, p3 % 256,
                   p2 % 256, p1 % 256, p0 % 256>>
    IN  bits_of(bytes)

\* build_time_signal_section: an immediate time_signal, with a segmentation
\* descriptor when a type id or a UPID type is given
build_time_signal_section(seg_type_id, upid_type, upid_value) ==
    LET Descriptors(w2) ==
            finalize_with_crc32(
                IF seg_type_id # None \/ upid_type # None
                THEN add_segmentation_descriptor(w2, None, seg_type_id, upid_type, upid_value)
                ELSE write_bits(w2, U64(0), 16),
                SectionLengthPos)
        CommandLength(w1, splice_cmd_start) ==
            Descriptors(patch_bits(w1, splice_cmd_start - 12,
                                   ((w1.bitpos - splice_cmd_start) \div 8) % 65536, 12))
        Command(w) ==
            CommandLength(emit(w, << <<U64(6), 8>>, <<U64(0), 1>>, <<U64(0), 7>> >>),
                          w.bitpos)
    IN  Command(section_prefix)

\* build_splice_insert_out_section: an immediate OUT splice_insert with
\* break_duration, always followed by a segmentation descriptor
build_splice_insert_out_section(duration_s, seg_type_id, upid_type, upid_value) ==
    LET Descriptors(w2, dur) ==
            finalize_with_crc32(
                add_segmentation_descriptor(w2, Some(dur), seg_type_id, upid_type,
                                            upid_value),
                SectionLengthPos)
        CommandLength(w1, splice_cmd_start, dur) ==
            Descriptors(patch_bits(w1, splice_cmd_start - 12,
                                   ((w1.bitpos - splice_cmd_start) \div 8) % 65536, 12),
                        dur)
        Command(w, dur) ==
            CommandLength(
                emit(w,
                  << <<U64(5), 8>>, <<U64(1), 32>>, <<U64(0), 1>>, <<U64(0), 7>>,
                     <<U64(1), 1>>, <<U64(1), 1>>, <<U64(1), 1>>, <<U64(1), 1>>, <<U64(0), 4>>,
                     <<U64(1), 1>>, <<U64(0), 6>>, <<dur, 33>>,
                     <<U64(1), 16>>, <<U64(0), 8>>, <<U64(0), 8>> >>),
                w.bitpos, dur)
    IN  Command(section_prefix, dur90k(duration_s))


\* the end of the two splice_insert IN builders: splice_command_length is
\* patched, descriptor_loop_length 0 is written, the section is finalized
splice_insert_in_end(w1, splice_cmd_start) ==
    finalize_with_crc32(
        write_bits(patch_bits(w1, splice_cmd_start - 12,
                              ((w1.bitpos - splice_cmd_start) \div 8) % 65536, 12),
                   U64(0), 16),
        SectionLengthPos)

\* build_splice_insert_in_section: an immediate IN splice_insert, no descriptor
build_splice_insert_in_section ==
    LET Command(w) ==
            splice_insert_in_end(
                emit(w,
                  << <<U64(5), 8>>, <<U64(2), 32>>, <<U64(0), 1>>, <<U64(0), 7>>,
                     <<U64(0), 1>>, <<U64(1), 1>>, <<U64(0), 1>>, <<U64(1), 1>>, <<U64(0), 4>>,
                     <<U64(1), 16>>, <<U64(0), 8>>, <<U64(0), 8>> >>),
                w.bitpos)
    IN  Command(section_prefix)

\* build_splice_insert_in_with_pts_section: an IN splice_insert at pts_time
\* (a u64, of which u33 writes the low 33 bits), no descriptor
build_splice_insert_in_with_pts_section(pts_time) ==
    LET Command(w) ==
            splice_insert_in_end(
                emit(w,
                  << <<U64(5), 8>>, <<U64(2), 32>>, <<U64(0), 1>>, <<U64(0), 7>>,
                     <<U64(0), 1>>, <<U64(1), 1>>, <<U64(0), 1>>, <<U64(0), 1>>, <<U64(0), 4>>,
                     <<U64(1), 1>>, <<U64(0), 6>>, <<pts_time, 33>>,
                     <<U64(1), 16>>, <<U64(0), 8>>, <<U64(0), 8>> >>),
                w.bitpos)
    IN  Command(section_prefix)

\* the characters of the standard Base64 alphabet, by value
B64_CHARS ==
    <<65, 66, 67, 68, 69, 70, 71, 72, 73, 74, 75, 76, 77, 78, 79, 80, 81, 82, 83, 84, 85, 86,
      87, 88, 89, 90, 97, 98, 99, 100, 101, 102, 103, 104, 105, 106, 107, 108, 109, 110,
      111, 112, 113, 114, 115, 116, 117, 118, 119, 120, 121, 122, 48, 49, 50, 51, 52, 53,
      54, 55, 56, 57, 43, 47>>

\* B64.encode (STANDARD: '=' padding)
RECURSIVE b64_encode(_)
b64_encode(bytes) ==
    IF bytes = <<>> THEN <<>>
    ELSE LET n == IF Len(bytes) >= 3 THEN 3 ELSE Len(bytes)
             b1 == bytes[1]
             b2 == IF n >= 2 THEN bytes[2] ELSE 0
             b3 == IF n >= 3 THEN bytes[3] ELSE 0
             c1 == B64_CHARS[(b1 \div 4) + 1]
             c2 == B64_CHARS[((b1 % 4) * 16) + (b2 \div 16) + 1]
             c3 == IF n >= 2 THEN B64_CHARS[((b2 % 16) * 4) + (b3 \div 64) + 1] ELSE 61
             c4 == IF n >= 3 THEN B64_CHARS[(b3 % 64) + 1] ELSE 61
         IN  <<c1, c2, c3, c4>> \o b64_encode(SubSeq(bytes, n + 1, Len(bytes)))

\* the value of a Base64 character, if it is one
b64_val(c) ==
    IF c >= 65 /\ c <= 90 THEN Some(c - 65)
    ELSE IF c >= 97 /\ c <= 122 THEN Some(c - 71)
    ELSE IF c >= 48 /\ c <= 57 THEN Some(c + 4)
    ELSE IF c = 43 THEN Some(62)
    ELSE IF c = 47 THEN Some(63)
    ELSE None

\* B64.decode (STANDARD: canonical padding required, no stray trailing bits):
\* Some(bytes) or None for a decode error
RECURSIVE b64_decode(_)
b64_decode(text) ==
    IF text = <<>> THEN Some(<<>>)
    ELSE IF Len(text) < 4 THEN None
    ELSE LET v1 == b64_val(text[1])
             v2 == b64_val(text[2])
             v3 == b64_val(text[3])
             v4 == b64_val(text[4])
             last == Len(text) = 4
         IN  IF v1 = None \/ v2 = None THEN None
             ELSE IF last /\ text[3] = 61 /\ text[4] = 61
             THEN (IF v2[1] % 16 # 0 THEN None ELSE Some(<<(v1[1] * 4) + (v2[1] \div 16)>>))
             ELSE IF v3 = None THEN None
             ELSE IF last /\ text[4] = 61
             THEN (IF v3[1] % 4 # 0 THEN None
                   ELSE Some(<<(v1[1] * 4) + (v2[1] \div 16), ((v2[1] % 16) * 16) + (v3[1] \div 4)>>))
             ELSE IF v4 = None THEN None
             ELSE LET r == b64_decode(SubSeq(text, 5, Len(text)))
                  IN  IF r = None THEN None
                      ELSE Some(<<(v1[1] * 4) + (v2[1] \div 16),
                                  ((v2[1] % 16) * 16) + (v3[1] \div 4),
                                  ((v3[1] % 4) * 64) + v4[1]>> \o r[1])

\* build_time_signal_immediate_b64
build_time_signal_immediate_b64 == b64_encode(build_time_signal_section(None, None, None))

\* build_splice_insert_out_b64
build_splice_insert_out_b64(duration_s) ==
    b64_encode(build_splice_insert_out_section(duration_s, None, None, None))

\* build_time_signal_advanced_b64
build_time_signal_advanced_b64(seg_type_id, upid_type, upid_value) ==
    b64_encode(build_time_signal_section(seg_type_id, upid_type, upid_value))

\* build_splice_insert_out_advanced_b64
build_splice_insert_out_advanced_b64(duration_s, seg_type_id, upid_type, upid_value) ==
    b64_encode(build_splice_insert_out_section(duration_s, seg_type_id, upid_type, upid_value))

\* build_splice_insert_in_b64
build_splice_insert_in_b64 == b64_encode(build_splice_insert_in_section)

\* build_splice_insert_in_with_pts_b64
build_splice_insert_in_with_pts_b64(pts_time) ==
    b64_encode(build_splice_insert_in_with_pts_section(pts_time))

-----------------------------------------------------------------------------
(* esam.rs: BitReader and decode_scte35_details *)

\* BitReader::new(data)
BitReader_new(data) == [data |-> data, bitpos |-> 0]

\* BitReader::read_bits(nbits): the bits read, most significant first; on
\* "out of bounds" bitpos stays where the failing bit is; a read of no bits
\* checks nothing
read_bits(br, nbits) ==
    IF nbits = 0 THEN [ok |-> TRUE, v |-> <<>>, br |-> br]
    ELSE IF br.bitpos + nbits <= 8 * Len(br.data)
    THEN [ok |-> TRUE,
          v |-> Tup([i \in 1..nbits |->
                       (br.data[((br.bitpos + i - 1) \div 8) + 1]
                          \div 2^(7 - ((br.bitpos + i - 1) % 8))) % 2], nbits),
          br |-> [br EXCEPT !.bitpos = br.bitpos + nbits]]
    ELSE [ok |-> FALSE, v |-> <<0>>,
          br |-> [br EXCEPT !.bitpos = IF br.bitpos > 8 * Len(br.data) THEN br.bitpos
                                       ELSE 8 * Len(br.data)]]

\* BitReader::skip_bits(nbits): bitpos is advanced first, then checked
skip_bits(br, nbits) ==
    [ok |-> (br.bitpos + nbits) \div 8 <= Len(br.data),
     br |-> [br EXCEPT !.bitpos = br.bitpos + nbits]]

\* a reader in the middle of a run of `?` reads: st = [ok, br, v], v the bits of
\* the last read; after the first failure nothing more is read
Rd(st, nbits) == IF ~st.ok THEN st ELSE read_bits(st.br, nbits)

Sk(st, nbits) ==
    LET Keep(x) == [ok |-> x.ok, br |-> x.br, v |-> st.v]
    IN  IF ~st.ok THEN st ELSE Keep(skip_bits(st.br, nbits))

Reading(br) == [ok |-> TRUE, br |-> br, v |-> <<0>>]

\* parse_splice_time: [ok, br, pts], pts an Option<u64>
parse_splice_time(br) ==
    LET Fin(time_specified_flag, b) ==
            [ok |-> b.ok, br |-> b.br,
             pts |-> IF b.ok /\ time_specified_flag THEN Some(zext(b.v)) ELSE None]
        Flag(a) == IF nat_of(a.v) = 1 THEN Fin(TRUE, Rd(Sk(a, 6), 33))
                   ELSE Fin(FALSE, Sk(a, 7))
    IN  Flag(Rd(Reading(br), 1))

\* the component loop of parse_splice_insert_pts: n components left; a failing
\* splice_time() of a component is passed over
RECURSIVE component_loop(_, _, _, _)
component_loop(st, n, splice_immediate_flag, pts_result) ==
    LET Time(t) ==
            component_loop(Reading(t.br), n - 1, splice_immediate_flag,
                           IF t.ok /\ t.pts # None /\ pts_result = None
                           THEN t.pts ELSE pts_result)
        Tag(a) == IF ~a.ok \/ splice_immediate_flag
                  THEN component_loop(a, n - 1, splice_immediate_flag, pts_result)
                  ELSE Time(parse_splice_time(a.br))
    IN  IF n = 0 \/ ~st.ok THEN [ok |-> st.ok, br |-> st.br, pts |-> pts_result]
        ELSE Tag(Rd(st, 8))

\* parse_splice_insert_pts after the splice_time part t = [ok, br, pts]:
\* break_duration if duration_flag, then unique_program_id, avail_num,
\* avails_expected
splice_insert_rest(t, duration_flag) ==
    LET Fin(e) == [ok |-> e.ok, br |-> e.br, pts |-> IF e.ok THEN t.pts ELSE None]
        Ids(d) == Fin(Rd(Rd(Rd(d, 16), 8), 8))
        Dur(d) == IF duration_flag THEN Ids(Rd(Sk(Rd(d, 1), 6), 33)) ELSE Ids(d)
    IN  Dur([ok |-> t.ok, br |-> t.br, v |-> <<0>>])

\* parse_splice_insert_pts after the flags and the four reserved bits
splice_insert_time(f, program_splice_flag, duration_flag, splice_immediate_flag) ==
    LET Components(c) ==
            component_loop(c, IF c.ok THEN nat_of(c.v) ELSE 0, splice_immediate_flag, None)
    IN  splice_insert_rest(
            IF ~f.ok THEN [ok |-> FALSE, br |-> f.br, pts |-> None]
            ELSE IF program_splice_flag /\ ~splice_immediate_flag
            THEN parse_splice_time(f.br)
            ELSE IF ~program_splice_flag THEN Components(Rd(f, 8))
            ELSE [ok |-> TRUE, br |-> f.br, pts |-> None],
            duration_flag)

\* parse_splice_insert_pts: [ok, br, pts]
parse_splice_insert_pts(br) ==
    LET Immediate(f, program_splice_flag, duration_flag) ==
            splice_insert_time(Sk(f, 4), program_splice_flag, duration_flag,
                               nat_of(f.v) = 1)
        Duration(f, program_splice_flag) ==
            Immediate(Rd(f, 1), program_splice_flag, nat_of(f.v) = 1)
        Program(f) == Duration(Rd(f, 1), nat_of(f.v) = 1)
        Cancel(a) == IF ~a.ok THEN [ok |-> FALSE, br |-> a.br, pts |-> None]
                     ELSE IF nat_of(a.v) = 1 THEN [ok |-> TRUE, br |-> a.br, pts |-> None]
                     ELSE Program(Rd(Rd(a, 1), 1))
    IN  Cancel(Sk(Rd(Rd(Reading(br), 32), 1), 7))

\* Scte35Info::default()
Scte35Info_default ==
    [command |-> None, segmentation_type_id |-> None,
     segmentation_upid_with_type |-> None, pts_time |-> None]

\* n bytes read one by one
RECURSIVE read_bytes(_, _, _)
read_bytes(st, n, acc) ==
    LET Byte(a) == read_bytes(a, n - 1, IF a.ok THEN Append(acc, nat_of(a.v)) ELSE acc)
    IN  IF n = 0 \/ ~st.ok THEN [ok |-> st.ok, br |-> st.br, v |-> acc]
        ELSE Byte(Rd(st, 8))

\* count components of a segmentation_descriptor skipped
RECURSIVE skip_components(_, _)
skip_components(st, n) ==
    IF n = 0 \/ ~st.ok THEN st ELSE skip_components(Sk(st, 48), n - 1)

\* segmentation_descriptor after the UPID: segmentation_type_id, segment_num and
\* segments_expected if three bytes are left before desc_end
segmentation_type(u, desc_end, info) ==
    LET Fin(e, info2) == [ok |-> e.ok, br |-> e.br, info |-> info2]
        Type(t) == Fin(Sk(t, 16),
                       IF t.ok THEN [info EXCEPT !.segmentation_type_id = Some(nat_of(t.v))]
                       ELSE info)
    IN  IF u.ok /\ u.br.bitpos + 24 <= desc_end THEN Type(Rd(u, 8)) ELSE Fin(u, info)

\* segmentation_descriptor from segmentation_upid_type on
segmentation_upid(d, desc_end, info) ==
    LET Bytes(u, upid_type, upid_len) ==
            segmentation_type(u, desc_end,
                IF u.ok /\ upid_len > 0
                THEN [info EXCEPT !.segmentation_upid_with_type = Some(<<upid_type, u.v>>)]
                ELSE info)
        Length(u, upid_type) ==
            Bytes(read_bytes(u, IF u.ok THEN nat_of(u.v) ELSE 0, <<>>), upid_type,
                  IF u.ok THEN nat_of(u.v) ELSE 0)
        Type(u) == Length(Rd(u, 8), nat_of(u.v))
    IN  Type(Rd(d, 8))

\* the body of a segmentation_descriptor (tag 0x02) as decode_scte35_details
\* reads it: [ok, br, info]
segmentation_descriptor(st, desc_end, info) ==
    LET Duration(c, duration_flag) ==
            segmentation_upid(IF duration_flag THEN Sk(c, 40) ELSE c, desc_end, info)
        Count(n, duration_flag) ==
            Duration(skip_components(n, IF n.ok THEN nat_of(n.v) ELSE 0), duration_flag)
        Components(p, program_flag, duration_flag) ==
            IF program_flag THEN Duration(p, duration_flag)
            ELSE Count(Rd(p, 8), duration_flag)
        DurationFlag(p, program_flag) ==
            Components(Sk(Rd(p, 1), 5), program_flag, nat_of(p.v) = 1)
        ProgramFlag(p) == DurationFlag(Rd(p, 1), nat_of(p.v) = 1)
        Cancel(a) == IF ~a.ok \/ nat_of(a.v) = 1
                     THEN [ok |-> a.ok, br |-> a.br, info |-> info]
                     ELSE ProgramFlag(Rd(a, 1))
    IN  Cancel(Sk(Rd(Rd(Rd(st, 32), 32), 1), 7))

\* the descriptor loop of decode_scte35_details: [ok, info]
RECURSIVE descriptor_loop(_, _, _)
descriptor_loop(br, loop_end, info) ==
    LET Next_(x, info2) == IF ~x.ok THEN [ok |-> FALSE, info |-> info]
                           ELSE descriptor_loop(x.br, loop_end, info2)
        Skip(s, desc_end) ==
            Next_(IF s.ok /\ s.br.bitpos < desc_end
                  THEN skip_bits(s.br, desc_end - s.br.bitpos)
                  ELSE [ok |-> s.ok, br |-> s.br],
                  s.info)
        Body(b, tag, desc_end) ==
            Skip(IF tag = 2 THEN segmentation_descriptor(b, desc_end, info)
                 ELSE [ok |-> b.ok, br |-> b.br, info |-> info],
                 desc_end)
        Length(b, tag) ==
            Body(b, tag, b.br.bitpos + ((IF b.ok THEN nat_of(b.v) ELSE 0) * 8))
        Tag(a) == Length(Rd(a, 8), nat_of(a.v))
    IN  IF br.bitpos + 16 > loop_end THEN [ok |-> TRUE, info |-> info]
        ELSE Tag(Rd(Reading(br), 8))

\* the name decode_scte35_details gives a splice_command_type
command_name(splice_command_type) ==
    CASE splice_command_type = 0   -> S_splice_null
      [] splice_command_type = 4   -> S_splice_schedule
      [] splice_command_type = 5   -> S_splice_insert
      [] splice_command_type = 6   -> S_time_signal
      [] splice_command_type = 7   -> S_bandwidth_reservation
      [] splice_command_type = 255 -> S_private_command
      [] OTHER                     -> S_unknown


\* a decoder that takes splice_command_length at its word: it steps over that
\* many bytes after splice_command_type and looks for the descriptor loop there
decode_section_by_length(bytes) ==
    LET Err == [ok |-> FALSE, info |-> Scte35Info_default, after_command |-> 0]
        Fin(l, after_command) ==
            IF ~l.ok THEN Err
            ELSE [ok |-> TRUE, info |-> l.info, after_command |-> after_command]
        Loop(w, info, after_command) ==
            IF ~w.ok THEN Err
            ELSE Fin(descriptor_loop(w.br, w.br.bitpos + ((nat_of(w.v) % 1024) * 8), info),
                     after_command)
        Header(h, length) ==
            IF ~h.ok THEN Err
            ELSE Loop(Rd(Sk(h, 8 * length), 16),
                      [Scte35Info_default EXCEPT
                          !.command = Some(command_name(nat_of(h.v)))],
                      h.br.bitpos + (8 * length))
        Length(l) == Header(Rd(l, 8), IF l.ok THEN nat_of(l.v) ELSE 0)
    IN  Length(Rd(Sk(Sk(Rd(Reading(BitReader_new(bytes)), 8), 16), 68), 12))

\* decode_scte35_details on the bytes of a section that starts with 0xFC
decode_section(bytes) ==
    LET Err == [ok |-> FALSE, info |-> Scte35Info_default, after_command |-> 0]
        Fin(l, after_command) ==
            IF ~l.ok THEN Err
            ELSE [ok |-> TRUE, info |-> l.info, after_command |-> after_command]
        Loop(w, info, after_command) ==
            IF ~w.ok THEN Err
            ELSE Fin(descriptor_loop(w.br, w.br.bitpos + ((nat_of(w.v) % 1024) * 8), info),
                     after_command)
        Command(cmd, splice_command_type) ==
            Loop(Rd(Reading(cmd.br), 16),
                 [Scte35Info_default EXCEPT
                     !.command = Some(command_name(splice_command_type)),
                     !.pts_time = IF cmd.ok THEN cmd.pts ELSE None],
                 cmd.br.bitpos)
        Header(h) ==
            IF ~h.ok THEN Err
            ELSE Command(IF nat_of(h.v) = 5 THEN parse_splice_insert_pts(h.br)
                         ELSE IF nat_of(h.v) = 6 THEN parse_splice_time(h.br)
                         ELSE [ok |-> TRUE, br |-> h.br, pts |-> None],
                         nat_of(h.v))
    IN  Header(Rd(Rd(Sk(Sk(Rd(Reading(BitReader_new(bytes)), 8), 16), 68), 12), 8))

\* decode_scte35_details: [ok |-> FALSE] for Err, else [ok |-> TRUE, info, and
\* after_command, the bit position descriptor_loop_length is read at]
decode_scte35_details(b64) ==
    LET Bytes(dec) ==
            IF dec = None
            THEN [ok |-> FALSE, info |-> Scte35Info_default, after_command |-> 0]
            ELSE IF dec[1] = <<>> \/ dec[1][1] # 252
            THEN [ok |-> TRUE, info |-> Scte35Info_default, after_command |-> 0]
            ELSE decode_section(dec[1])
    IN  Bytes(b64_decode(b64))

-----------------------------------------------------------------------------
(* esam.rs: XML in, notification out *)

\* str::replace(from, to) for a one-byte pattern
RECURSIVE str_replace(_, _, _)
str_replace(s, from, to) ==
    IF \A k \in 1..Len(s) : s[k] # from THEN s
    ELSE LET i == CHOOSE j \in 1..Len(s) :
                     s[j] = from /\ \A k \in 1..(j - 1) : s[k] # from
         IN  SubSeq(s, 1, i - 1) \o to \o str_replace(SubSeq(s, i + 1, Len(s)), from, to)

\* xml_escape: & first, then < > " '
xml_escape(s) ==
    str_replace(str_replace(str_replace(str_replace(str_replace(s,
        38, S_amp), 60, S_lt), 62, S_gt), 34, S_quot), 39, S_apos)

\* the predefined entity s begins with, as <<byte, length>>, if any
EntityAt(s) ==
    IF starts_with(s, S_amp) THEN Some(<<38, Len(S_amp)>>)
    ELSE IF starts_with(s, S_lt) THEN Some(<<60, Len(S_lt)>>)
    ELSE IF starts_with(s, S_gt) THEN Some(<<62, Len(S_gt)>>)
    ELSE IF starts_with(s, S_quot) THEN Some(<<34, Len(S_quot)>>)
    ELSE IF starts_with(s, S_apos) THEN Some(<<39, Len(S_apos)>>)
    ELSE None

\* unescape_value / unescape of quick_xml on the predefined entities:
\* Some(text), or None for an '&' that starts no entity
RECURSIVE unescape(_)
unescape(s) ==
    IF \A k \in 1..Len(s) : s[k] # 38 THEN Some(s)
    ELSE LET i == CHOOSE j \in 1..Len(s) :
                     s[j] = 38 /\ \A k \in 1..(j - 1) : s[k] # 38
             e == EntityAt(SubSeq(s, i, Len(s)))
         IN  IF e = None THEN None
             ELSE LET r == unescape(SubSeq(s, i + e[1][2], Len(s)))
                  IN  IF r = None THEN None
                      ELSE Some(SubSeq(s, 1, i - 1) \o <<e[1][1]>> \o r[1])

\* the attribute loop of extract_facts: Some(value) of the last attribute whose
\* key ends with `key` (else found); err when an attribute value fails to unescape
RECURSIVE attr_loop(_, _, _, _)
attr_loop(attrs, i, key, found) ==
    IF i > Len(attrs) THEN [err |-> FALSE, val |-> found]
    ELSE LET v == unescape(attrs[i][2])
         IN  IF v = None THEN [err |-> TRUE, val |-> found]
             ELSE attr_loop(attrs, i + 1, key,
                            IF ends_with(attrs[i][1], key) THEN v ELSE found)

\* the reader loop of extract_facts over the events of the document, from event i;
\* st = [acq, utc, b64, err].  Only Event::Start is looked at; the event after a
\* BinaryData start tag is consumed whatever it is.
RECURSIVE read_events(_, _, _)
read_events(evs, i, st) ==
    LET Text(st1, x) == IF x = None THEN [st1 EXCEPT !.err = TRUE]
                        ELSE read_events(evs, i + 2, [st1 EXCEPT !.b64 = x])
        Binary(e, st1) ==
            IF ~ends_with(e.name, N_BinaryData) THEN read_events(evs, i + 1, st1)
            ELSE IF i + 1 <= Len(evs) /\ evs[i + 1].ev = "Text"
            THEN Text(st1, unescape(evs[i + 1].text))
            ELSE read_events(evs, i + 2, st1)
        Attrs(e, a, u) ==
            IF a.err \/ u.err THEN [st EXCEPT !.err = TRUE]
            ELSE Binary(e, [st EXCEPT
                               !.acq = IF a.val = None THEN st.acq ELSE a.val[1],
                               !.utc = IF u.val = None THEN st.utc ELSE u.val])
        Start(e) ==
            Attrs(e,
                  IF ends_with(e.name, N_AcquiredSignal)
                  THEN attr_loop(e.attrs, 1, K_acquisitionSignalID, None)
                  ELSE [err |-> FALSE, val |-> None],
                  IF ends_with(e.name, N_UTCPoint)
                  THEN attr_loop(e.attrs, 1, K_utcPoint, None)
                  ELSE [err |-> FALSE, val |-> None])
    IN  IF i > Len(evs) THEN st
        ELSE IF evs[i].ev = "Err" THEN [st EXCEPT !.err = TRUE]
        ELSE IF evs[i].ev # "Start" THEN read_events(evs, i + 1, st)
        ELSE Start(evs[i])

\* the digit of "0123456789ABCDEF" for a nibble
HexDigit(n) == IF n < 10 THEN 48 + n ELSE 55 + n

\* format!("0x{type_id:02X}")
FormatTypeId(type_id) == <<48, 120, HexDigit(type_id \div 16), HexDigit(type_id % 16)>>

-----------------------------------------------------------------------------
(* esam.rs: display names of segmentation types and UPIDs *)

\* "Reserved (0x"
S_Reserved_open == <<82, 101, 115, 101, 114, 118, 101, 100, 32, 40, 48, 120>>
\* "Custom/Vendor Specific (0x"
S_Custom_open == <<67, 117, 115, 116, 111, 109, 47, 86, 101, 110, 100, 111, 114, 32, 83, 112, 101, 99, 105, 102, 105, 99, 32, 40, 48, 120>>
\* "Reserved/Unknown (0x"
S_ReservedUnknown_open == <<82, 101, 115, 101, 114, 118, 101, 100, 47, 85, 110, 107, 110, 111, 119, 110, 32, 40, 48, 120>>
\* ")"
S_close == <<41>>
\* "Not Used"
S_Not_Used == <<78, 111, 116, 32, 85, 115, 101, 100>>
\* "ASCII: "
S_ASCII_ == <<65, 83, 67, 73, 73, 58, 32>>
\* "hex: "
S_hex_ == <<104, 101, 120, 58, 32>>
\* "hex:"
S_hexc == <<104, 101, 120, 58>>
\* "Ad-ID: "
S_Ad_ID_ == <<65, 100, 45, 73, 68, 58, 32>>
\* "Ad-ID (invalid): "
S_Ad_ID_invalid == <<65, 100, 45, 73, 68, 32, 40, 105, 110, 118, 97, 108, 105, 100, 41, 58, 32>>
\* "ISAN: "
S_ISAN_ == <<73, 83, 65, 78, 58, 32>>
\* "ISAN (invalid): "
S_ISAN_invalid == <<73, 83, 65, 78, 32, 40, 105, 110, 118, 97, 108, 105, 100, 41, 58, 32>>
\* "TI: "
S_TI_ == <<84, 73, 58, 32>>
\* "TI (invalid): "
S_TI_invalid == <<84, 73, 32, 40, 105, 110, 118, 97, 108, 105, 100, 41, 58, 32>>
\* "ADI: "
S_ADI_ == <<65, 68, 73, 58, 32>>
\* "EIDR: "
S_EIDR_ == <<69, 73, 68, 82, 58, 32>>
\* "EIDR (invalid): "
S_EIDR_invalid == <<69, 73, 68, 82, 32, 40, 105, 110, 118, 97, 108, 105, 100, 41, 58, 32>>
\* "MID: "
S_MID_ == <<77, 73, 68, 58, 32>>
\* "MID: (empty)"
S_MID_empty == <<77, 73, 68, 58, 32, 40, 101, 109, 112, 116, 121, 41>>
\* "[Type 0x"
S_Type_0x == <<91, 84, 121, 112, 101, 32, 48, 120>>
\* ": "
S_colon_sp == <<58, 32>>
\* "] "
S_bracket_sp == <<93, 32>>
\* "URI: "
S_URI_ == <<85, 82, 73, 58, 32>>
\* "URI (invalid): "
S_URI_invalid == <<85, 82, 73, 32, 40, 105, 110, 118, 97, 108, 105, 100, 41, 58, 32>>
\* "UUID: "
S_UUID_ == <<85, 85, 73, 68, 58, 32>>
\* "UUID (invalid): "
S_UUID_invalid == <<85, 85, 73, 68, 32, 40, 105, 110, 118, 97, 108, 105, 100, 41, 58, 32>>

\* format!("{:02X}", b)
hex02X(b) == <<HexDigit(b \div 16), HexDigit(b % 16)>>

\* the digit of "0123456789abcdef" for a nibble
hex_digit_lower(n) == IF n < 10 THEN 48 + n ELSE 87 + n

\* format!("{:02x}", b)
hex02x(b) == <<hex_digit_lower(b \div 16), hex_digit_lower(b % 16)>>

\* decode_segmentation_type_name
decode_segmentation_type_name(type_id) ==
    CASE type_id = 0 -> <<78, 111, 116, 32, 73, 110, 100, 105, 99, 97, 116, 101, 100>>  \* 0x00 "Not Indicated"
      [] type_id = 1 -> <<67, 111, 110, 116, 101, 110, 116, 32, 73, 100, 101, 110, 116, 105, 102, 105, 99, 97, 116, 105, 111, 110>>  \* 0x01 "Content Identification"
      [] type_id = 16 -> <<80, 114, 111, 103, 114, 97, 109, 32, 83, 116, 97, 114, 116>>  \* 0x10 "Program Start"
      [] type_id = 17 -> <<80, 114, 111, 103, 114, 97, 109, 32, 69, 110, 100>>  \* 0x11 "Program End"
      [] type_id = 18 -> <<80, 114, 111, 103, 114, 97, 109, 32, 69, 97, 114, 108, 121, 32, 84, 101, 114, 109, 105, 110, 97, 116, 105, 111, 110>>  \* 0x12 "Program Early Termination"
      [] type_id = 19 -> <<80, 114, 111, 103, 114, 97, 109, 32, 66, 114, 101, 97, 107, 97, 119, 97, 121>>  \* 0x13 "Program Breakaway"
      [] type_id = 20 -> <<80, 114, 111, 103, 114, 97, 109, 32, 82, 101, 115, 117, 109, 112, 116, 105, 111, 110>>  \* 0x14 "Program Resumption"
      [] type_id = 21 -> <<80, 114, 111, 103, 114, 97, 109, 32, 82, 117, 110, 111, 118, 101, 114, 32, 80, 108, 97, 110, 110, 101, 100>>  \* 0x15 "Program Runover Planned"
      [] type_id = 22 -> <<80, 114, 111, 103, 114, 97, 109, 32, 82, 117, 110, 111, 118, 101, 114, 32, 85, 110, 112, 108, 97, 110, 110, 101, 100>>  \* 0x16 "Program Runover Unplanned"
      [] type_id = 23 -> <<80, 114, 111, 103, 114, 97, 109, 32, 79, 118, 101, 114, 108, 97, 112, 32, 83, 116, 97, 114, 116>>  \* 0x17 "Program Overlap Start"
      [] type_id = 24 -> <<80, 114, 111, 103, 114, 97, 109, 32, 66, 108, 97, 99, 107, 111, 117, 116, 32, 79, 118, 101, 114, 114, 105, 100, 101>>  \* 0x18 "Program Blackout Override"
      [] type_id = 25 -> <<80, 114, 111, 103, 114, 97, 109, 32, 83, 116, 97, 114, 116, 32, 45, 32, 73, 110, 32, 80, 114, 111, 103, 114, 101, 115, 115>>  \* 0x19 "Program Start - In Progress"
      [] type_id = 32 -> <<67, 104, 97, 112, 116, 101, 114, 32, 83, 116, 97, 114, 116>>  \* 0x20 "Chapter Start"
      [] type_id = 33 -> <<67, 104, 97, 112, 116, 101, 114, 32, 69, 110, 100>>  \* 0x21 "Chapter End"
      [] type_id = 34 -> <<66, 114, 101, 97, 107, 32, 83, 116, 97, 114, 116>>  \* 0x22 "Break Start"
      [] type_id = 35 -> <<66, 114, 101, 97, 107, 32, 69, 110, 100>>  \* 0x23 "Break End"
      [] type_id = 36 -> <<79, 112, 101, 110, 105, 110, 103, 32, 67, 114, 101, 100, 105, 116, 32, 83, 116, 97, 114, 116>>  \* 0x24 "Opening Credit Start"
      [] type_id = 37 -> <<79, 112, 101, 110, 105, 110, 103, 32, 67, 114, 101, 100, 105, 116, 32, 69, 110, 100>>  \* 0x25 "Opening Credit End"
      [] type_id = 38 -> <<67, 108, 111, 115, 105, 110, 103, 32, 67, 114, 101, 100, 105, 116, 32, 83, 116, 97, 114, 116>>  \* 0x26 "Closing Credit Start"
      [] type_id = 39 -> <<67, 108, 111, 115, 105, 110, 103, 32, 67, 114, 101, 100, 105, 116, 32, 69, 110, 100>>  \* 0x27 "Closing Credit End"
      [] type_id = 48 -> <<80, 114, 111, 118, 105, 100, 101, 114, 32, 65, 100, 118, 101, 114, 116, 105, 115, 101, 109, 101, 110, 116, 32, 83, 116, 97, 114, 116>>  \* 0x30 "Provider Advertisement Start"
      [] type_id = 49 -> <<80, 114, 111, 118, 105, 100, 101, 114, 32, 65, 100, 118, 101, 114, 116, 105, 115, 101, 109, 101, 110, 116, 32, 69, 110, 100>>  \* 0x31 "Provider Advertisement End"
      [] type_id = 50 -> <<68, 105, 115, 116, 114, 105, 98, 117, 116, 111, 114, 32, 65, 100, 118, 101, 114, 116, 105, 115, 101, 109, 101, 110, 116, 32, 83, 116, 97, 114, 116>>  \* 0x32 "Distributor Advertisement Start"
      [] type_id = 51 -> <<68, 105, 115, 116, 114, 105, 98, 117, 116, 111, 114, 32, 65, 100, 118, 101, 114, 116, 105, 115, 101, 109, 101, 110, 116, 32, 69, 110, 100>>  \* 0x33 "Distributor Advertisement End"
      [] type_id = 52 -> <<80, 114, 111, 118, 105, 100, 101, 114, 32, 80, 108, 97, 99, 101, 109, 101, 110, 116, 32, 79, 112, 112, 111, 114, 116, 117, 110, 105, 116, 121, 32, 83, 116, 97, 114, 116>>  \* 0x34 "Provider Placement Opportunity Start"
      [] type_id = 53 -> <<80, 114, 111, 118, 105, 100, 101, 114, 32, 80, 108, 97, 99, 101, 109, 101, 110, 116, 32, 79, 112, 112, 111, 114, 116, 117, 110, 105, 116, 121, 32, 69, 110, 100>>  \* 0x35 "Provider Placement Opportunity End"
      [] type_id = 54 -> <<68, 105, 115, 116, 114, 105, 98, 117, 116, 111, 114, 32, 80, 108, 97, 99, 101, 109, 101, 110, 116, 32, 79, 112, 112, 111, 114, 116, 117, 110, 105, 116, 121, 32, 83, 116, 97, 114, 116>>  \* 0x36 "Distributor Placement Opportunity Start"
      [] type_id = 55 -> <<68, 105, 115, 116, 114, 105, 98, 117, 116, 111, 114, 32, 80, 108, 97, 99, 101, 109, 101, 110, 116, 32, 79, 112, 112, 111, 114, 116, 117, 110, 105, 116, 121, 32, 69, 110, 100>>  \* 0x37 "Distributor Placement Opportunity End"
      [] type_id = 56 -> <<80, 114, 111, 118, 105, 100, 101, 114, 32, 79, 118, 101, 114, 108, 97, 121, 32, 80, 108, 97, 99, 101, 109, 101, 110, 116, 32, 79, 112, 112, 111, 114, 116, 117, 110, 105, 116, 121, 32, 83, 116, 97, 114, 116>>  \* 0x38 "Provider Overlay Placement Opportunity Start"
      [] type_id = 57 -> <<80, 114, 111, 118, 105, 100, 101, 114, 32, 79, 118, 101, 114, 108, 97, 121, 32, 80, 108, 97, 99, 101, 109, 101, 110, 116, 32, 79, 112, 112, 111, 114, 116, 117, 110, 105, 116, 121, 32, 69, 110, 100>>  \* 0x39 "Provider Overlay Placement Opportunity End"
      [] type_id = 58 -> <<68, 105, 115, 116, 114, 105, 98, 117, 116, 111, 114, 32, 79, 118, 101, 114, 108, 97, 121, 32, 80, 108, 97, 99, 101, 109, 101, 110, 116, 32, 79, 112, 112, 111, 114, 116, 117, 110, 105, 116, 121, 32, 83, 116, 97, 114, 116>>  \* 0x3A "Distributor Overlay Placement Opportunity Start"
      [] type_id = 59 -> <<68, 105, 115, 116, 114, 105, 98, 117, 116, 111, 114, 32, 79, 118, 101, 114, 108, 97, 121, 32, 80, 108, 97, 99, 101, 109, 101, 110, 116, 32, 79, 112, 112, 111, 114, 116, 117, 110, 105, 116, 121, 32, 69, 110, 100>>  \* 0x3B "Distributor Overlay Placement Opportunity End"
      [] type_id = 64 -> <<85, 110, 115, 99, 104, 101, 100, 117, 108, 101, 100, 32, 69, 118, 101, 110, 116, 32, 83, 116, 97, 114, 116>>  \* 0x40 "Unscheduled Event Start"
      [] type_id = 65 -> <<85, 110, 115, 99, 104, 101, 100, 117, 108, 101, 100, 32, 69, 118, 101, 110, 116, 32, 69, 110, 100>>  \* 0x41 "Unscheduled Event End"
      [] type_id = 80 -> <<78, 101, 116, 119, 111, 114, 107, 32, 83, 116, 97, 114, 116>>  \* 0x50 "Network Start"
      [] type_id = 81 -> <<78, 101, 116, 119, 111, 114, 107, 32, 69, 110, 100>>  \* 0x51 "Network End"
      [] type_id = 129 -> <<67, 117, 115, 116, 111, 109, 47, 86, 101, 110, 100, 111, 114, 32, 83, 112, 101, 99, 105, 102, 105, 99, 32, 40, 48, 120, 56, 49, 41>>  \* 0x81 "Custom/Vendor Specific (0x81)"
      [] OTHER -> IF type_id >= 128 THEN S_Custom_open \o hex02X(type_id) \o S_close
                  ELSE S_Reserved_open \o hex02X(type_id) \o S_close

\* decode_upid_type_name
decode_upid_type_name(upid_type) ==
    CASE upid_type = 0 -> <<78, 111, 116, 32, 85, 115, 101, 100>>  \* 0x00 "Not Used"
      [] upid_type = 1 -> <<85, 115, 101, 114, 32, 68, 101, 102, 105, 110, 101, 100, 32, 40, 68, 101, 112, 114, 101, 99, 97, 116, 101, 100, 41>>  \* 0x01 "User Defined (Deprecated)"
      [] upid_type = 2 -> <<73, 83, 67, 73, 32, 40, 68, 101, 112, 114, 101, 99, 97, 116, 101, 100, 41>>  \* 0x02 "ISCI (Deprecated)"
      [] upid_type = 3 -> <<65, 100, 45, 73, 68>>  \* 0x03 "Ad-ID"
      [] upid_type = 4 -> <<85, 77, 73, 68>>  \* 0x04 "UMID"
      [] upid_type = 5 -> <<73, 83, 65, 78>>  \* 0x05 "ISAN"
      [] upid_type = 6 -> <<86, 45, 73, 83, 65, 78>>  \* 0x06 "V-ISAN"
      [] upid_type = 7 -> <<84, 73>>  \* 0x07 "TI"
      [] upid_type = 8 -> <<65, 68, 73>>  \* 0x08 "ADI"
      [] upid_type = 9 -> <<69, 73, 68, 82>>  \* 0x09 "EIDR"
      [] upid_type = 10 -> <<65, 84, 83, 67, 32, 67, 111, 110, 116, 101, 110, 116, 32, 73, 100, 101, 110, 116, 105, 102, 105, 101, 114>>  \* 0x0A "ATSC Content Identifier"
      [] upid_type = 11 -> <<77, 80, 85>>  \* 0x0B "MPU"
      [] upid_type = 12 -> <<77, 73, 68>>  \* 0x0C "MID"
      [] upid_type = 13 -> <<65, 68, 83, 32, 73, 110, 102, 111, 114, 109, 97, 116, 105, 111, 110>>  \* 0x0D "ADS Information"
      [] upid_type = 14 -> <<85, 82, 73>>  \* 0x0E "URI"
      [] upid_type = 15 -> <<85, 85, 73, 68>>  \* 0x0F "UUID"
      [] upid_type = 16 -> <<83, 67, 82>>  \* 0x10 "SCR"
      [] OTHER -> S_ReservedUnknown_open \o hex02X(upid_type) \o S_close

\* is_ascii_printable
is_ascii_printable(bytes) ==
    \A i \in 1..Len(bytes) :
        bytes[i] = 9 \/ bytes[i] = 10 \/ bytes[i] = 13 \/ (bytes[i] >= 32 /\ bytes[i] <= 126)

\* hex_encode
RECURSIVE hex_encode(_)
hex_encode(bytes) ==
    IF bytes = <<>> THEN <<>> ELSE hex02X(bytes[1]) \o hex_encode(Tail(bytes))

\* one step of the long division of a big-endian byte string by ten:
\* <<quotient bytes, remainder>>
RECURSIVE div10(_, _, _)
div10(bytes, rem, acc) ==
    IF bytes = <<>> THEN <<acc, rem>>
    ELSE LET x == (rem * 256) + bytes[1]
         IN  div10(Tail(bytes), x % 10, Append(acc, x \div 10))

\* format!("{}", u64::from_be_bytes(data)): the decimal digits
RECURSIVE decimal_of(_)
decimal_of(bytes) ==
    LET qr == div10(bytes, 0, <<>>)
    IN  IF \A i \in 1..Len(qr[1]) : qr[1][i] = 0 THEN <<48 + qr[2]>>
        ELSE decimal_of(qr[1]) \o <<48 + qr[2]>>

\* decode_ad_id
decode_ad_id(data) ==
    IF Len(data) = 12 /\ is_ascii_printable(data) THEN S_Ad_ID_ \o data
    ELSE S_Ad_ID_invalid \o S_hexc \o hex_encode(data)

\* decode_isan
decode_isan(data) ==
    (IF Len(data) >= 8 THEN S_ISAN_ ELSE S_ISAN_invalid) \o S_hexc \o hex_encode(data)

\* decode_ti
decode_ti(data) ==
    IF Len(data) = 8 THEN S_TI_ \o decimal_of(data)
    ELSE S_TI_invalid \o S_hexc \o hex_encode(data)

\* decode_adi
decode_adi(data) ==
    IF is_ascii_printable(data) THEN S_ADI_ \o data
    ELSE S_ADI_ \o S_hexc \o hex_encode(data)

\* decode_eidr
decode_eidr(data) ==
    (IF Len(data) >= 12 THEN S_EIDR_ ELSE S_EIDR_invalid) \o S_hexc \o hex_encode(data)

\* decode_uri
decode_uri(data) ==
    IF is_ascii_printable(data) THEN S_URI_ \o data
    ELSE S_URI_invalid \o S_hexc \o hex_encode(data)

\* decode_uuid: 8-4-4-4-12 lower-case hex digits
decode_uuid(data) ==
    IF Len(data) = 16
    THEN LET h(i, j) == IF i > j THEN <<>> ELSE
                        Tup([k \in 1..(2 * (j - i + 1)) |->
                               hex02x(data[i + ((k - 1) \div 2)])[((k - 1) % 2) + 1]],
                            2 * (j - i + 1))
         IN  S_UUID_ \o h(1, 4) \o <<45>> \o h(5, 6) \o <<45>> \o h(7, 8) \o <<45>>
                     \o h(9, 10) \o <<45>> \o h(11, 16)
    ELSE S_UUID_invalid \o S_hexc \o hex_encode(data)

\* decode_upid_data, and decode_mid's loop over the sub-UPIDs from offset pos
RECURSIVE decode_upid_data(_, _)
RECURSIVE decode_mid_from(_, _, _)
decode_mid_from(data, pos, result) ==
    IF pos >= Len(data) \/ pos + 1 >= Len(data) THEN result
    ELSE LET sub_type == data[pos + 1]
             sub_len  == data[pos + 2]
         IN  IF pos + 2 + sub_len > Len(data) THEN result
             ELSE decode_mid_from(data, pos + 2 + sub_len,
                      result \o S_Type_0x \o hex02X(sub_type) \o S_colon_sp
                             \o decode_upid_data(sub_type,
                                                 SubSeq(data, pos + 3, pos + 2 + sub_len))
                             \o S_bracket_sp)

\* decode_mid
decode_mid(data) ==
    IF data = <<>> THEN S_MID_empty ELSE decode_mid_from(data, 0, S_MID_)

decode_upid_data(upid_type, data) ==
    CASE upid_type = 0  -> S_Not_Used
      [] upid_type = 3  -> decode_ad_id(data)
      [] upid_type = 5  -> decode_isan(data)
      [] upid_type = 7  -> decode_ti(data)
      [] upid_type = 8  -> decode_adi(data)
      [] upid_type = 9  -> decode_eidr(data)
      [] upid_type = 12 -> decode_mid(data)
      [] upid_type = 14 -> decode_uri(data)
      [] upid_type = 15 -> decode_uuid(data)
      [] OTHER -> IF is_ascii_printable(data) THEN S_ASCII_ \o data
                  ELSE S_hex_ \o hex_encode(data)


-----------------------------------------------------------------------------
(* esam.rs: extract_facts *)

\* extract_facts with the decode error passed on by `?`
extract_facts_fatal(body) == [ok |-> FALSE, facts |-> <<>>]

\* extract_facts on a request body.  body.xml is the event stream quick_xml
\* reads from the text.  Result: [ok |-> FALSE] or [ok |-> TRUE, facts |-> map];
\* scte35.pts_time is a JSON number, kept as [u64 |-> its 64 bits]
extract_facts(body) ==
    LET Facts(st, keys, info) ==
            [ok |-> TRUE,
             facts |->
               [k \in keys |->
                  CASE k = "acquisitionSignalID" -> st.acq
                    [] k = "utcPoint" -> IF st.utc = None THEN S_epoch ELSE st.utc[1]
                    [] k = "scte35.command" ->
                          IF info.command = None THEN S_unknown ELSE info.command[1]
                    [] k = "scte35_b64" -> st.b64[1]
                    [] k = "scte35.segmentation_type_id" ->
                          FormatTypeId(info.segmentation_type_id[1])
                    [] k = "scte35.segmentation_type_name" ->
                          decode_segmentation_type_name(info.segmentation_type_id[1])
                    [] k = "scte35.segmentation_upid" ->
                          decode_upid_data(info.segmentation_upid_with_type[1][1],
                                           info.segmentation_upid_with_type[1][2])
                    [] k = "scte35.upid_type_name" ->
                          decode_upid_type_name(info.segmentation_upid_with_type[1][1])
                    [] k = "scte35.pts_time" -> [u64 |-> info.pts_time[1]]]]
        Keys(st, info) ==
            Facts(st,
                  {"acquisitionSignalID", "utcPoint", "scte35.command"}
                    \cup (IF st.b64 = None THEN {} ELSE {"scte35_b64"})
                    \cup (IF info.segmentation_type_id = None THEN {}
                          ELSE {"scte35.segmentation_type_id",
                                "scte35.segmentation_type_name"})
                    \cup (IF info.segmentation_upid_with_type = None THEN {}
                          ELSE {"scte35.segmentation_upid", "scte35.upid_type_name"})
                    \cup (IF info.pts_time = None THEN {} ELSE {"scte35.pts_time"}),
                  info)
        Info(st, dec) == Keys(st, IF dec.ok THEN dec.info ELSE Scte35Info_default)
        Decode(st) ==
            IF st.err \/ st.acq = S_empty THEN [ok |-> FALSE, facts |-> <<>>]
            ELSE Info(st, IF st.b64 = None
                          THEN [ok |-> FALSE, info |-> Scte35Info_default]
                          ELSE decode_scte35_details(st.b64[1]))
    IN  Decode(read_events(body.xml, 1,
                           [acq |-> S_empty, utc |-> None, b64 |-> None, err |-> FALSE]))

\* build_notification: the ResponseSignal action and acquisitionSignalID
\* attributes, the Note, and the sig:BinaryData element content if one is
\* emitted (utcPoint, now + 4 s, is not modelled)
build_notification(acq_id, action, params) ==
    [action |-> xml_escape(action),
     acquisitionSignalID |-> xml_escape(acq_id),
     note |-> IF action = S_delete THEN S_filtered
              ELSE IF action = S_replace THEN S_replaced
              ELSE S_pass,
     BinaryData |->
        IF (eq_ignore_ascii_case(action, S_replace) \/ eq_ignore_ascii_case(action, S_noop))
           /\ "scte35_b64" \in DOMAIN params
        THEN Some(xml_escape(params["scte35_b64"]))
        ELSE None]

-----------------------------------------------------------------------------
(* tools_api.rs: decode_scte35_internal *)

\* "Command parsing not implemented"
S_not_implemented == <<67, 111, 109, 109, 97, 110, 100, 32, 112, 97, 114, 115, 105, 110, 103, 32, 110, 111, 116, 32, 105, 109, 112, 108, 101, 109, 101, 110, 116, 101, 100>>
\* "(empty)"
S_empty_upid == <<40, 101, 109, 112, 116, 121, 41>>
\* "ISAN:"
S_ISANc == <<73, 83, 65, 78, 58>>
\* "EIDR:"
S_EIDRc == <<69, 73, 68, 82, 58>>
\* "avail_descriptor"
S_avail_descriptor == <<97, 118, 97, 105, 108, 95, 100, 101, 115, 99, 114, 105, 112, 116, 111, 114>>
\* "DTMF_descriptor"
S_DTMF_descriptor == <<68, 84, 77, 70, 95, 100, 101, 115, 99, 114, 105, 112, 116, 111, 114>>
\* "segmentation_descriptor"
S_segmentation_descriptor == <<115, 101, 103, 109, 101, 110, 116, 97, 116, 105, 111, 110, 95, 100, 101, 115, 99, 114, 105, 112, 116, 111, 114>>

\* a number of the decoded record, kept as the 64 bits of its value
JU64(bits) == [u64 |-> zext(bits)]

\* format!("0x{:08X}", v) of a 32-bit value
hex08X(bits) ==
    <<48, 120>> \o Tup([i \in 1..8 |-> HexDigit(nat_of(SubSeq(bits, (4 * i) - 3, 4 * i)))], 8)

\* format_upid: the display of a UPID
format_upid(upid_type, bytes) ==
    LET Hex == S_hexc \o hex_encode(bytes)
        h(i, j) == Tup([k \in 1..(2 * (j - i + 1)) |->
                           hex02x(bytes[i + ((k - 1) \div 2)])[((k - 1) % 2) + 1]],
                       2 * (j - i + 1))
    IN  IF bytes = <<>> THEN S_empty_upid
        ELSE IF upid_type \in {1, 2, 3, 12, 13}
        THEN (IF \A i \in 1..Len(bytes) : bytes[i] >= 32 /\ bytes[i] <= 126
              THEN bytes ELSE Hex)
        ELSE IF upid_type = 15 THEN bytes
        ELSE IF upid_type = 16
        THEN (IF Len(bytes) = 16
              THEN h(1, 4) \o <<45>> \o h(5, 6) \o <<45>> \o h(7, 8) \o <<45>>
                     \o h(9, 10) \o <<45>> \o h(11, 16)
              ELSE Hex)
        ELSE IF upid_type = 6
        THEN (IF Len(bytes) = 12 THEN S_ISANc \o hex_encode(bytes) ELSE Hex)
        ELSE IF upid_type = 10
        THEN (IF Len(bytes) = 12 THEN S_EIDRc \o hex_encode(bytes) ELSE Hex)
        ELSE Hex

\* the components of a splice_insert in component mode: [ok, br, v], v the
\* JSON array
RECURSIVE tools_components(_, _, _, _)
tools_components(st, n, splice_immediate_flag, components) ==
    LET Pts(e, tag) ==
            tools_components(e, n - 1, splice_immediate_flag,
                             Append(components, [tag |-> tag, pts_time |-> JU64(e.v)]))
        NoPts(e, tag) ==
            tools_components(e, n - 1, splice_immediate_flag,
                             Append(components, [tag |-> tag]))
        Time(e, tag) == IF nat_of(e.v) = 1 THEN Pts(Rd(Sk(e, 6), 33), tag)
                        ELSE NoPts(Sk(e, 7), tag)
        Tag(e) == IF splice_immediate_flag THEN NoPts(e, JU64(e.v))
                  ELSE Time(Rd(e, 1), JU64(e.v))
    IN  IF n = 0 \/ ~st.ok THEN [ok |-> st.ok, br |-> st.br, v |-> components]
        ELSE Tag(Rd(st, 8))

\* parse_command_info, 0x05, after the flags: splice_time() or the component
\* list: [st, result]
splice_insert_mode(e, program_splice_flag, splice_immediate_flag, result) ==
    LET Pts(p) == [st |-> p, result |-> result @@ [pts_time |-> JU64(p.v)]]
        Time(t) == IF nat_of(t.v) = 1 THEN Pts(Rd(Sk(t, 6), 33))
                   ELSE [st |-> Sk(t, 7), result |-> result]
        List(c) == [st |-> [ok |-> c.ok, br |-> c.br, v |-> <<0>>],
                    result |-> result @@ [components |-> c.v]]
        Count(c) == List(tools_components(c, IF c.ok THEN nat_of(c.v) ELSE 0,
                                          splice_immediate_flag, <<>>))
    IN  IF program_splice_flag /\ ~splice_immediate_flag THEN Time(Rd(e, 1))
        ELSE IF ~program_splice_flag THEN Count(Rd(e, 8))
        ELSE [st |-> e, result |-> result]

\* parse_command_info, 0x05, from break_duration on: [ok, br, info]
\* (break_duration.duration_seconds, an f64, is left out)
splice_insert_tail(st, duration_flag, result) ==
    LET Expected(e, res) ==
            [ok |-> e.ok, br |-> e.br,
             info |-> IF e.ok THEN res @@ [avails_expected |-> JU64(e.v)] ELSE EmptyObj]
        Avail(e, res) == Expected(Rd(e, 8), res @@ [avail_num |-> JU64(e.v)])
        Program(e, res) == Avail(Rd(e, 8), res @@ [unique_program_id |-> JU64(e.v)])
        Ids(e, res) == Program(Rd(e, 16), res)
        Ticks(e, auto_return) ==
            [st |-> e,
             result |-> result @@ [break_duration |->
                                      [auto_return |-> auto_return,
                                       duration_ticks |-> JU64(e.v)]]]
        Auto(e) == Ticks(Rd(Sk(e, 6), 33), nat_of(e.v) = 1)
        Break(b) == Ids(b.st, b.result)
    IN  Break(IF duration_flag THEN Auto(Rd(st, 1)) ELSE [st |-> st, result |-> result])

\* parse_command_info, 0x05
tools_splice_insert(br) ==
    LET Tail_(m, duration_flag) == splice_insert_tail(m.st, duration_flag, m.result)
        Immediate(e, event_id, out_of_network, program_splice_flag, duration_flag) ==
            Tail_(splice_insert_mode(
                     Sk(e, 4), program_splice_flag, nat_of(e.v) = 1,
                     [command |-> S_splice_insert,
                      splice_event_id |-> event_id,
                      out_of_network_indicator |-> out_of_network,
                      program_splice_flag |-> program_splice_flag,
                      duration_flag |-> duration_flag,
                      splice_immediate_flag |-> (nat_of(e.v) = 1)]),
                  duration_flag)
        Duration(e, event_id, out_of_network, program_splice_flag) ==
            Immediate(Rd(e, 1), event_id, out_of_network, program_splice_flag,
                      nat_of(e.v) = 1)
        Program(e, event_id, out_of_network) ==
            Duration(Rd(e, 1), event_id, out_of_network, nat_of(e.v) = 1)
        OutOfNetwork(e, event_id) == Program(Rd(e, 1), event_id, nat_of(e.v) = 1)
        Reserved(e, event_id, event_cancel) ==
            IF ~e.ok THEN [ok |-> FALSE, br |-> e.br, info |-> EmptyObj]
            ELSE IF event_cancel
            THEN [ok |-> TRUE, br |-> e.br,
                  info |-> [command |-> S_splice_insert, splice_event_id |-> event_id,
                            splice_event_cancel_indicator |-> TRUE]]
            ELSE OutOfNetwork(Rd(e, 1), event_id)
        Cancel(e, event_id) == Reserved(Sk(e, 7), event_id, nat_of(e.v) = 1)
        Event(e) == Cancel(Rd(e, 1), JU64(e.v))
    IN  Event(Rd(Reading(br), 32))

\* parse_command_info, 0x06
tools_time_signal(br) ==
    LET Pts(e) == [ok |-> e.ok, br |-> e.br,
                   info |-> IF e.ok
                            THEN [command |-> S_time_signal, time_specified |-> TRUE,
                                  pts_time |-> JU64(e.v)]
                            ELSE EmptyObj]
        Immediate(e) ==
            [ok |-> e.ok, br |-> e.br,
             info |-> IF e.ok
                      THEN [command |-> S_time_signal, time_specified |-> FALSE,
                            immediate |-> TRUE]
                      ELSE EmptyObj]
        Flag(e) == IF nat_of(e.v) = 1 THEN Pts(Rd(Sk(e, 6), 33)) ELSE Immediate(Sk(e, 7))
    IN  Flag(Rd(Reading(br), 1))

\* parse_command_info: [ok, br, info]
parse_command_info(br, command_type) ==
    CASE command_type = 0 -> [ok |-> TRUE, br |-> br, info |-> [command |-> S_splice_null]]
      [] command_type = 5 -> tools_splice_insert(br)
      [] command_type = 6 -> tools_time_signal(br)
      [] command_type = 7 ->
            [ok |-> TRUE, br |-> br, info |-> [command |-> S_bandwidth_reservation]]
      [] OTHER -> [ok |-> TRUE, br |-> br, info |-> [info |-> S_not_implemented]]

\* parse_descriptor: the skip of the bytes of the descriptor not read yet
skip_rest(e, start_pos, length) ==
    IF e.ok /\ (e.br.bitpos - start_pos) \div 8 < length
    THEN Sk(e, (length - ((e.br.bitpos - start_pos) \div 8)) * 8)
    ELSE e

\* the components of a segmentation_descriptor, read and dropped
RECURSIVE tools_seg_components(_, _)
tools_seg_components(st, n) ==
    IF n = 0 \/ ~st.ok THEN st
    ELSE tools_seg_components(Rd(Sk(Rd(st, 8), 7), 33), n - 1)

\* parse_descriptor, segmentation_descriptor from the UPID on: [ok, br, data]
\* (the display names of the type and of the UPID type, and
\* segmentation_duration_seconds, are left out)
segmentation_fields(st, start_pos, length, head, seg_duration) ==
    LET Fin(e, data) == [ok |-> e.ok, br |-> e.br,
                         data |-> IF e.ok THEN data ELSE EmptyObj]
        Expected(e, data) ==
            Fin(skip_rest(e, start_pos, length), data @@ [segments_expected |-> JU64(e.v)])
        Num(e, data) == Expected(Rd(e, 8), data @@ [segment_num |-> JU64(e.v)])
        Type(e, upid_type, upid_bytes) ==
            Num(Rd(e, 8),
                head @@ [segmentation_type_id |-> FormatTypeId(nat_of(e.v)),
                         segmentation_duration_ticks |-> seg_duration,
                         upid_type |-> FormatTypeId(upid_type),
                         upid_value |-> format_upid(upid_type, upid_bytes)])
        Bytes(b, upid_type) ==
            Type(Rd([ok |-> b.ok, br |-> b.br, v |-> <<0>>], 8), upid_type, b.v)
        UpidLength(e, upid_type) ==
            Bytes(read_bytes(e, IF e.ok THEN nat_of(e.v) ELSE 0, <<>>), upid_type)
        UpidType(e) == UpidLength(Rd(e, 8), nat_of(e.v))
    IN  UpidType(Rd(st, 8))

\* parse_descriptor, segmentation_descriptor: [ok, br, data]
tools_segmentation_descriptor(st, length) ==
    LET Cancelled(e, head) ==
            [ok |-> e.ok, br |-> e.br,
             data |-> IF e.ok THEN head @@ [cancelled |-> TRUE] ELSE EmptyObj]
        Fields(d, head) == segmentation_fields(d.st, st.br.bitpos, length, head, d.ticks)
        Ticks(d) == [st |-> d, ticks |-> IF d.ok THEN Some(JU64(d.v)) ELSE None]
        Duration(e, seg_duration_flag, head) ==
            Fields(IF seg_duration_flag THEN Ticks(Rd(e, 40))
                   ELSE [st |-> e, ticks |-> None],
                   head)
        Count(e) == tools_seg_components(e, IF e.ok THEN nat_of(e.v) ELSE 0)
        Components(e, program_seg_flag, seg_duration_flag, head) ==
            Duration(IF program_seg_flag = 0 THEN Count(Rd(e, 8)) ELSE e,
                     seg_duration_flag, head)
        Restrictions(e, program_seg_flag, seg_duration_flag, head) ==
            Components(IF nat_of(e.v) = 0 THEN Rd(Rd(Rd(Rd(e, 1), 1), 1), 2) ELSE Sk(e, 5),
                       program_seg_flag, seg_duration_flag, head)
        DurationFlag(e, program_seg_flag, head) ==
            Restrictions(Rd(e, 1), program_seg_flag, nat_of(e.v) = 1, head)
        ProgramFlag(e, head) == DurationFlag(Rd(e, 1), nat_of(e.v), head)
        Reserved(e, seg_cancel, head) ==
            IF e.ok /\ seg_cancel = 0 /\ length > 5 THEN ProgramFlag(Rd(e, 1), head)
            ELSE Cancelled(skip_rest(e, st.br.bitpos, length), head)
        Cancel(e, head) == Reserved(Sk(e, 7), nat_of(e.v), head)
        EventId(e, identifier) ==
            Cancel(Rd(e, 1), [identifier |-> identifier,
                              segmentation_event_id |-> JU64(e.v)])
        Identifier(e) == EventId(Rd(e, 32), hex08X(e.v))
    IN  Identifier(Rd(st, 32))

\* the characters of a DTMF_descriptor
RECURSIVE dtmf_chars(_, _, _)
dtmf_chars(st, n, acc) ==
    LET Char(e) == dtmf_chars(e, n - 1, IF e.ok THEN Append(acc, nat_of(e.v)) ELSE acc)
    IN  IF n = 0 \/ ~st.ok THEN [ok |-> st.ok, br |-> st.br, v |-> acc]
        ELSE Char(Rd(st, 8))

\* parse_descriptor: [ok, br, desc]
parse_descriptor(br) ==
    LET Fin(d, tag, length) ==
            [ok |-> d.ok, br |-> d.br,
             desc |-> [tag |-> tag,
                       tag_name |-> CASE tag = 0 -> S_avail_descriptor
                                      [] tag = 1 -> S_DTMF_descriptor
                                      [] tag = 2 -> S_segmentation_descriptor
                                      [] OTHER   -> S_unknown,
                       length |-> length,
                       data |-> d.data]]
        Avail(e, length) ==
            [ok |-> skip_rest(e, e.br.bitpos - 32, length).ok,
             br |-> skip_rest(e, e.br.bitpos - 32, length).br,
             data |-> [provider_avail_id |-> JU64(e.v)]]
        Chars(c, length, dtmf_count, preroll) ==
            [ok |-> (IF c.ok /\ 2 + dtmf_count < length
                     THEN Sk(c, (length - (2 + dtmf_count)) * 8) ELSE c).ok,
             br |-> (IF c.ok /\ 2 + dtmf_count < length
                     THEN Sk(c, (length - (2 + dtmf_count)) * 8) ELSE c).br,
             data |-> [preroll |-> preroll, dtmf_chars |-> c.v]]
        Count(e, length, preroll) ==
            Chars(dtmf_chars(Sk(e, 5), IF e.ok THEN nat_of(e.v) ELSE 0, <<>>), length,
                  IF e.ok THEN nat_of(e.v) ELSE 0, preroll)
        Preroll(e, length) == Count(Rd(e, 3), length, JU64(e.v))
        Unknown(e) == [ok |-> e.ok, br |-> e.br, data |-> EmptyObj]
        Data(e, tag, length) ==
            Fin(IF ~e.ok THEN [ok |-> FALSE, br |-> e.br, data |-> EmptyObj]
                ELSE IF tag = 2 /\ length >= 6 THEN tools_segmentation_descriptor(e, length)
                ELSE IF tag = 0 /\ length >= 4 THEN Avail(Rd(e, 32), length)
                ELSE IF tag = 1 /\ length >= 1 THEN Preroll(Rd(e, 8), length)
                ELSE Unknown(Sk(e, length * 8)),
                tag, length)
        Length(e, tag) == Data(e, tag, nat_of(e.v))
        Tag(e) == Length(Rd(e, 8), nat_of(e.v))
    IN  Tag(Rd(Reading(br), 8))

\* the descriptor loop of decode_scte35_internal: the descriptors parsed
\* before desc_end or before the first one that fails
RECURSIVE tools_descriptor_loop(_, _, _)
tools_descriptor_loop(br, desc_end, descriptors) ==
    LET Parsed(d) == IF d.ok
                     THEN tools_descriptor_loop(d.br, desc_end, Append(descriptors, d.desc))
                     ELSE descriptors
    IN  IF br.bitpos < desc_end THEN Parsed(parse_descriptor(br)) ELSE descriptors

\* decode_scte35_internal on the bytes of a section that starts with 0xFC
\* (raw_hex is left out; after_command is the bit position the
\* descriptor_loop_length word is read at)
tools_decode_section(bytes) ==
    LET Err == [ok |-> FALSE, out |-> EmptyObj, after_command |-> 0]
        Loop(w, head, after_command) ==
            IF ~w.ok THEN Err
            ELSE [ok |-> TRUE,
                  out |-> head @@
                          [descriptors |->
                              IF nat_of(w.v) % 1024 > 0
                              THEN tools_descriptor_loop(
                                      w.br, w.br.bitpos + ((nat_of(w.v) % 1024) * 8), <<>>)
                              ELSE <<>>],
                  after_command |-> after_command]
        Command(c, head) ==
            IF ~c.ok THEN Err
            ELSE Loop(Rd(Reading(c.br), 16), head @@ [command_info |-> c.info], c.br.bitpos)
        Type(e, head) ==
            IF ~e.ok THEN Err
            ELSE Command(parse_command_info(e.br, nat_of(e.v)),
                         head @@ [command_type |-> command_name(nat_of(e.v)),
                                  command_type_id |-> nat_of(e.v)])
        Adjustment(e, protocol_version, encrypted_packet) ==
            Type(Rd(Rd(Rd(Rd(e, 8), 12), 12), 8),
                 [table_id |-> FormatTypeId(252),
                  protocol_version |-> protocol_version,
                  encrypted_packet |-> encrypted_packet,
                  pts_adjustment |-> JU64(e.v)])
        Encrypted(e, protocol_version) ==
            Adjustment(Rd(Rd(e, 6), 33), protocol_version, nat_of(e.v) = 1)
        Version(e) == Encrypted(Rd(e, 1), nat_of(e.v))
    IN  Version(Rd(Rd(Rd(Rd(Rd(Rd(Reading(BitReader_new(bytes)), 8), 1), 1), 2), 12), 8))

\* decode_scte35_internal: [ok |-> FALSE] for Err, else the decoded record
decode_scte35_internal(b64) ==
    IF b64_decode(b64) = None \/ b64_decode(b64)[1] = <<>> \/ b64_decode(b64)[1][1] # 252
    THEN [ok |-> FALSE, out |-> EmptyObj, after_command |-> 0]
    ELSE tools_decode_section(b64_decode(b64)[1])


-----------------------------------------------------------------------------
(* tools_api.rs: build_scte35_internal *)

\* the ASCII members of White_Space, which str::trim removes
WhiteSpace == {9, 10, 11, 12, 13, 32}

\* str::trim
trim(s) ==
    LET Inner == {i \in 1..Len(s) : s[i] \notin WhiteSpace}
        Between(first, last) == SubSeq(s, first, last)
    IN  IF Inner = {} THEN <<>>
        ELSE Between(CHOOSE i \in Inner : \A j \in Inner : i <= j,
                     CHOOSE i \in Inner : \A j \in Inner : j <= i)

\* str::trim_start_matches(pat): the prefix is removed as often as it occurs
RECURSIVE trim_start_matches(_, _)
trim_start_matches(s, pat) ==
    IF Len(s) >= Len(pat) /\ SubSeq(s, 1, Len(pat)) = pat
    THEN trim_start_matches(SubSeq(s, Len(pat) + 1, Len(s)), pat)
    ELSE s

\* the digit loop of u8::from_str_radix(_, 16): None for a character that is
\* not a hex digit and for a value above 255
RECURSIVE radix16_u8(_, _)
radix16_u8(digits, acc) ==
    IF digits = <<>> THEN Some(acc)
    ELSE IF hex_val(digits[1]) = None THEN None
    ELSE IF (16 * acc) + hex_val(digits[1])[1] > 255 THEN None
    ELSE radix16_u8(Tail(digits), (16 * acc) + hex_val(digits[1])[1])

\* u8::from_str_radix(s, 16): one leading '+' is allowed, at least one digit
\* is required
from_str_radix16_u8(s) ==
    LET Digits(d) == IF d = <<>> THEN None ELSE radix16_u8(d, 0)
    IN  IF s = <<>> THEN None
        ELSE Digits(IF s[1] = 43 THEN Tail(s) ELSE s)

\* parse_hex_u8: trim, drop leading "0x" then leading "0X", parse as hex u8
parse_hex_u8(s) ==
    from_str_radix16_u8(
        trim_start_matches(trim_start_matches(trim(s), <<48, 120>>), <<48, 88>>))

\* Option::and_then(parse_hex_u8)
and_then_parse_hex_u8(o) == IF o = None THEN None ELSE parse_hex_u8(o[1])

\* build_scte35_internal: [ok |-> FALSE] for Err("Unknown command"), else the
\* Base64 text of the built section
build_scte35_internal(request) ==
    LET Built(b64) == [ok |-> TRUE, b64 |-> b64]
    IN  IF request.command \in {S_time_signal, S_time_signal_immediate}
        THEN Built(build_time_signal_advanced_b64(
                     and_then_parse_hex_u8(request.segmentation_type_id),
                     and_then_parse_hex_u8(request.segmentation_upid_type),
                     request.segmentation_upid))
        ELSE IF request.command = S_splice_insert_out
        THEN Built(build_splice_insert_out_advanced_b64(
                     IF request.duration_seconds = None THEN 60
                     ELSE request.duration_seconds[1],
                     and_then_parse_hex_u8(request.segmentation_type_id),
                     and_then_parse_hex_u8(request.segmentation_upid_type),
                     request.segmentation_upid))
        ELSE [ok |-> FALSE, b64 |-> <<>>]

-----------------------------------------------------------------------------
(* main.rs: the channel/rule store and its CRUD handlers *)

\* JWT claims of the callers of the CRUD API (Claims.sub parsed as i64, Claims.role)
Callers == {[sub |-> 1, role |-> "admin"], [sub |-> 2, role |-> "user"]}

\* Option<bool> of UpsertChannel.enabled / UpsertRule.enabled
OptBool == {None, Some(TRUE), Some(FALSE)}

\* channel names callers use
ChannelNames == {S_default, S_cnn}

\* UpsertRule payloads callers send (name, match_json, action, params_json)
RuleInputs ==
    {[name |-> "pass", match_json |-> EmptyObj, action |-> S_noop,
      params_json |-> EmptyObj],
     [name |-> "drop time_signal",
      match_json |-> DocOf(None, Some(<<CondOf({"scte35.command"})>>)),
      action |-> S_delete, params_json |-> EmptyObj],
     [name |-> "replace 0x34",
      match_json |-> DocOf(None, Some(<<CondOf({"scte35.segmentation_type_id"})>>)),
      action |-> S_replace, params_json |-> [scte35_b64 |-> S_b64_rule]]}

\* UpsertRule.priority values callers send (-1: append at end)
PriorityInputs == {-1, 0}

\* b as i64
BoolToInt(b) == IF b THEN 1 ELSE 0

\* the owner check the handlers make for a non-admin caller on a table row:
\* "SELECT owner_user_id FROM <table> WHERE id = ? AND deleted_at IS NULL"
\* "ok", "forbidden" (403) or "notfound" (404)
owner_check(caller, table, id) ==
    IF caller.role = "admin" THEN "ok"
    ELSE IF id \notin 1..Len(table) \/ table[id].deleted THEN "notfound"
    ELSE IF table[id].owner = None THEN "forbidden"
    ELSE IF table[id].owner[1] # caller.sub THEN "forbidden"
    ELSE "ok"

\* seed_default_channel_and_rule on an empty database
SeedChannels ==
    <<[id |-> 1, name |-> S_default, enabled |-> 1, deleted |-> FALSE, owner |-> None]>>

SeedRules ==
    <<[id |-> 1, channel_id |-> 1, name |-> "Default noop", priority |-> 0,
       enabled |-> 1, deleted |-> FALSE, match_json |-> EmptyObj, action |-> S_noop,
       params_json |-> EmptyObj, owner |-> None]>>

\* create_channel: INSERT INTO channels (name is UNIQUE)
create_channel(caller, name, enabled) ==
    /\ calls < MaxCalls
    /\ Len(channels) < MaxChannels
    /\ \A i \in 1..Len(channels) : channels[i].name # name
    /\ channels' = Append(channels,
                          [id |-> Len(channels) + 1, name |-> name,
                           enabled |-> BoolToInt(IF enabled = None THEN TRUE ELSE enabled[1]),
                           deleted |-> FALSE, owner |-> Some(caller.sub)])
    /\ calls' = calls + 1
    /\ UNCHANGED <<rules, events, req, match_vars, codec_vars, clock>>

\* update_channel: name=COALESCE(?,name), enabled=COALESCE(?,enabled)
\* WHERE id=? AND deleted_at IS NULL
update_channel(caller, id, name, enabled) ==
    /\ calls < MaxCalls
    /\ id \in 1..Len(channels)
    /\ owner_check(caller, channels, id) = "ok"
    /\ ~channels[id].deleted
    /\ \A i \in 1..Len(channels) : i # id => channels[i].name # name
    /\ channels' = [channels EXCEPT
                      ![id].name = name,
                      ![id].enabled = IF enabled = None THEN @ ELSE BoolToInt(enabled[1])]
    /\ calls' = calls + 1
    /\ UNCHANGED <<rules, events, req, match_vars, codec_vars, clock>>

\* delete_channel: UPDATE channels SET deleted_at=?, enabled=0
\* WHERE id=? AND deleted_at IS NULL
delete_channel(caller, id) ==
    /\ calls < MaxCalls
    /\ id \in 1..Len(channels)
    /\ owner_check(caller, channels, id) = "ok"
    /\ ~channels[id].deleted
    /\ channels' = [channels EXCEPT ![id].deleted = TRUE, ![id].enabled = 0]
    /\ calls' = calls + 1
    /\ UNCHANGED <<rules, events, req, match_vars, codec_vars, clock>>

\* "SELECT MAX(priority) FROM rules WHERE channel_id=? AND deleted_at IS NULL",
\* then maxp + 10, or 0 when the channel has no such rule
next_priority(channel_id) ==
    LET ps == {rules[i].priority : i \in {j \in 1..Len(rules) :
                    rules[j].channel_id = channel_id /\ ~rules[j].deleted}}
    IN  IF ps = {} THEN 0
        ELSE (CHOOSE m \in ps : \A q \in ps : q <= m) + 10

\* create_rule: INSERT INTO rules
create_rule(caller, channel_id, p, priority, enabled) ==
    /\ calls < MaxCalls
    /\ Len(rules) < MaxRules
    /\ channel_id \in 1..Len(channels)
    /\ owner_check(caller, channels, channel_id) = "ok"
    /\ rules' = Append(rules,
                       [id |-> Len(rules) + 1, channel_id |-> channel_id,
                        name |-> p.name,
                        priority |-> IF priority < 0 THEN next_priority(channel_id)
                                     ELSE priority,
                        enabled |-> BoolToInt(IF enabled = None THEN TRUE ELSE enabled[1]),
                        deleted |-> FALSE, match_json |-> p.match_json,
                        action |-> p.action, params_json |-> p.params_json,
                        owner |-> Some(caller.sub)])
    /\ calls' = calls + 1
    /\ UNCHANGED <<channels, events, req, match_vars, codec_vars, clock>>

\* update_rule: UPDATE rules SET name, priority, enabled, match_json, action,
\* params_json WHERE id=? AND deleted_at IS NULL
update_rule(caller, id, p, priority, enabled) ==
    /\ calls < MaxCalls
    /\ id \in 1..Len(rules)
    /\ owner_check(caller, rules, id) = "ok"
    /\ ~rules[id].deleted
    /\ rules' = [rules EXCEPT
                   ![id].name = p.name,
                   ![id].priority = priority,
                   ![id].enabled = BoolToInt(IF enabled = None THEN TRUE ELSE enabled[1]),
                   ![id].match_json = p.match_json,
                   ![id].action = p.action,
                   ![id].params_json = p.params_json]
    /\ calls' = calls + 1
    /\ UNCHANGED <<channels, events, req, match_vars, codec_vars, clock>>

\* delete_rule: UPDATE rules SET deleted_at=?, enabled=0 WHERE id=? AND deleted_at IS NULL
delete_rule(caller, id) ==
    /\ calls < MaxCalls
    /\ id \in 1..Len(rules)
    /\ owner_check(caller, rules, id) = "ok"
    /\ ~rules[id].deleted
    /\ rules' = [rules EXCEPT ![id].deleted = TRUE, ![id].enabled = 0]
    /\ calls' = calls + 1
    /\ UNCHANGED <<channels, events, req, match_vars, codec_vars, clock>>

-----------------------------------------------------------------------------
(* main.rs, event_logging.rs: the ESAM request pipeline *)

\* request bodies: the events of the XML text
XmlStart(name, attrs) == [ev |-> "Start", name |-> name, attrs |-> attrs]
XmlEmpty(name, attrs) == [ev |-> "Empty", name |-> name, attrs |-> attrs]
XmlText(text) == [ev |-> "Text", text |-> text]
XmlEnd == [ev |-> "End"]
XmlErr == [ev |-> "Err"]

\* the Base64 text of a time_signal carrying a segmentation descriptor of type
\* 0x34 (Provider Placement Opportunity Start), as the builder produces it:
\* "/DAtAAAAAAAAAP/wAgYAABsCGUNVRUkAAAABAKAMCFBPSVMtT1VUNAAAAAC5sY+t"
S_b64_ts34 ==
    <<47, 68, 65, 116, 65, 65, 65, 65, 65, 65, 65, 65, 65, 80, 47, 119, 65, 103, 89, 65, 65, 66, 115, 67, 71, 85, 78, 86, 82, 85, 107, 65, 65, 65, 65, 66, 65, 75, 65, 77, 67, 70, 66, 80, 83, 86, 77, 116, 84, 49, 86, 85, 78, 65, 65, 65, 65, 65, 67, 53, 115, 89, 43, 116>>

Bodies ==
    { \* AcquiredSignal, UTCPoint and BinaryData as start/end tag pairs
      [xml |-> <<XmlStart(N_AcquiredSignal, <<<<K_acquisitionSignalID, S_ACQ_123_OUT>>>>),
                 XmlStart(N_sig_UTCPoint, <<<<K_utcPoint, S_utc2024>>>>), XmlEnd,
                 XmlStart(N_sig_BinaryData, <<>>), XmlText(S_b64_ts34), XmlEnd,
                 XmlEnd>>],
      \* self-closing UTCPoint, payload that is a section cut after four bytes
      [xml |-> <<XmlStart(N_AcquiredSignal, <<<<K_acquisitionSignalID, S_ACQ_OUT_EXTRA>>>>),
                 XmlEmpty(N_sig_UTCPoint, <<<<K_utcPoint, S_utc2024>>>>),
                 XmlStart(N_sig_BinaryData, <<>>), XmlText(S_b64_in), XmlEnd,
                 XmlEnd>>],
      \* no acquisitionSignalID attribute
      [xml |-> <<XmlStart(N_AcquiredSignal, <<>>), XmlEnd>>],
      \* malformed XML
      [xml |-> <<XmlStart(N_AcquiredSignal, <<<<K_acquisitionSignalID, S_ACQ_123_OUT>>>>),
                 XmlErr>>] }

\* one AcquiredSignal carrying the BinaryData text b64
BodyWith(b64) ==
    [xml |-> <<XmlStart(N_AcquiredSignal, <<<<K_acquisitionSignalID, S_ACQ_123_OUT>>>>),
               XmlStart(N_sig_BinaryData, <<>>), XmlText(b64), XmlEnd,
               XmlEnd>>]

\* the section of S_b64_ts34 and its first n bytes as Base64 text
SectionTs34 == b64_decode(S_b64_ts34)[1]
Truncated(n) == b64_encode(SubSeq(SectionTs34, 1, n))

\* a time_signal whose splice_time announces a pts_time the section ends in
SectionCutInPts == SubSeq(SectionTs34, 1, 14) \o <<254, 0>>

\* BinaryData texts: not Base64, Base64 of bytes that do not start with 0xFC,
\* sections cut in the header, in the command and in the descriptor loop, a
\* section cut after its last descriptor (only the CRC_32 is missing), and
\* whole sections
PayloadTexts ==
    {S_b64_bad, S_b64_zero, S_b64_in, Truncated(13), b64_encode(SectionCutInPts),
     Truncated(30), Truncated(Len(SectionTs34) - 4), S_b64_ts34}

\* request bodies of the fixed-store harness: one per payload text, and one
\* whose AcquiredSignal and UTCPoint are self-closing elements
EsamBodies ==
    {BodyWith(t) : t \in PayloadTexts} \cup
    {[xml |-> <<XmlEmpty(N_AcquiredSignal, <<<<K_acquisitionSignalID, S_ACQ_123_OUT>>>>),
                XmlEmpty(N_sig_UTCPoint, <<<<K_utcPoint, S_utc2024>>>>)>>]}

\* extract_facts of each body, computed once
ParsedPairs == {<<b, extract_facts(b)>> : b \in Bodies \cup EsamBodies}

ParsedBody == [b \in Bodies \cup EsamBodies |-> (CHOOSE p \in ParsedPairs : p[1] = b)[2]]

\* where the caller names the channel: URL path (/esam/channel/:channel),
\* ?channel= query parameter, X-POIS-Channel header
Addressing ==
    {[path |-> None, query |-> None, header |-> None],
     [path |-> Some(S_default), query |-> None, header |-> None],
     [path |-> Some(S_cnn), query |-> None, header |-> None],
     [path |-> None, query |-> Some(S_cnn), header |-> None],
     [path |-> None, query |-> None, header |-> Some(S_cnn)]}

ReqIdle ==
    [pc |-> "idle", path |-> None, query |-> None, header |-> None,
     facts |-> EmptyObj, channel_name |-> S_empty, channel_id |-> 0,
     loaded |-> <<>>, matched |-> None, notification |-> None,
     status |-> 0, log_attempts |-> 0, start |-> 0]

\* path_channel.or_else(facts ChannelName / channelName).unwrap_or("default")
resolve_channel(path_channel, obj) ==
    IF path_channel # None THEN path_channel[1]
    ELSE IF "ChannelName" \in DOMAIN obj THEN obj["ChannelName"]
    ELSE IF "channelName" \in DOMAIN obj THEN obj["channelName"]
    ELSE S_default

\* handle_esam / handle_esam_with_path up to the first await: extract_facts and
\* the channel name; a parse error answers 400 at once
EsamStart(addr, body) ==
    /\ req.pc = "idle"
    /\ calls < MaxCalls
    /\ LET Parsed(r, base) ==
               IF ~r.ok
               THEN req' = [base EXCEPT !.pc = "done", !.status = 400]
               ELSE req' = [base EXCEPT !.pc = "lookup", !.facts = r.facts,
                                        !.channel_name = resolve_channel(addr.path, r.facts)]
       IN  Parsed(ParsedBody[body],
                  [ReqIdle EXCEPT !.path = addr.path, !.query = addr.query,
                                  !.header = addr.header, !.start = clock])
    /\ calls' = calls + 1
    /\ UNCHANGED <<channels, rules, events, match_vars, codec_vars, clock>>

\* "SELECT id, timezone FROM channels WHERE name=? AND enabled=1 AND deleted_at
\* IS NULL" .fetch_optional().await.ok().flatten(): a store error reads as no row
EsamLookup(db_ok) ==
    /\ req.pc = "lookup"
    /\ LET found == {i \in 1..Len(channels) :
                        /\ channels[i].name = req.channel_name
                        /\ channels[i].enabled = 1
                        /\ ~channels[i].deleted}
       IN  IF db_ok /\ found # {}
           THEN \E i \in found :
                  req' = [req EXCEPT !.pc = "load", !.channel_id = i, !.path = None,
                                     !.query = None, !.header = None]
           ELSE req' = [req EXCEPT !.pc = "done", !.status = 404, !.path = None,
                                   !.query = None, !.header = None]
    /\ UNCHANGED <<channels, rules, events, calls, match_vars, codec_vars, clock>>

\* the rows "SELECT * FROM rules WHERE channel_id=? AND enabled=1 AND deleted_at
\* IS NULL" selects
selected_rules(channel_id) ==
    {i \in 1..Len(rules) :
        rules[i].channel_id = channel_id /\ rules[i].enabled = 1 /\ ~rules[i].deleted}

\* the orders "ORDER BY priority" may return the rows in: ascending priority,
\* rows of equal priority in an order SQL leaves open
order_by_priority(ids) ==
    {s \in [1..Cardinality(ids) -> ids] :
        /\ \A i, j \in 1..Cardinality(ids) : i # j => s[i] # s[j]
        /\ \A i, j \in 1..Cardinality(ids) :
              i < j => rules[s[i]].priority <= rules[s[j]].priority}

\* the loop with break of handle_esam_impl: the first loaded rule that matches
RECURSIVE find_first_match(_, _, _)
find_first_match(loaded, obj, i) ==
    IF i > Len(loaded) THEN None
    ELSE IF rule_matches(loaded[i].match_json, obj) THEN Some(loaded[i])
    ELSE find_first_match(loaded, obj, i + 1)

\* the loop without its break: the last loaded rule that matches
RECURSIVE find_last_match(_, _, _)
find_last_match(loaded, obj, i) ==
    IF i > Len(loaded) THEN None
    ELSE LET rest == find_last_match(loaded, obj, i + 1)
         IN  IF rest # None THEN rest
             ELSE IF rule_matches(loaded[i].match_json, obj) THEN Some(loaded[i])
             ELSE None

\* the loop run to its end: a later match overwrites an earlier one
match_loop_no_break(loaded, obj) == find_last_match(loaded, obj, 1)

\* the rule the loop of handle_esam_impl leaves in matched_rule
match_loop(loaded, obj) == find_first_match(loaded, obj, 1)

\* JSON values whose type the code inspects: a string, a non-negative integer
JStr(s) == [str |-> s]
JNum(n) == [num |-> n]

\* the build.command values maybe_build_scte35 has an arm for
KnownBuildCommands == {S_time_signal_immediate, S_splice_insert_out}

\* maybe_build_scte35 with every command answered by the empty string
maybe_build_scte35_none(params) == params

\* maybe_build_scte35: params["scte35_b64"] is set when params.build.command is
\* a string the match has an arm for (duration_s.as_u64().unwrap_or(0) as u32;
\* numbers of this model are below 2^31, where the cast changes nothing)
maybe_build_scte35(params) ==
    IF "build" \notin DOMAIN params THEN params
    ELSE LET build == params["build"]
         IN  IF "command" \notin DOMAIN build \/ "str" \notin DOMAIN build["command"]
             THEN params
             ELSE LET Built(out) ==
                          IF out = S_empty THEN params
                          ELSE [k \in DOMAIN params \cup {"scte35_b64"} |->
                                  IF k = "scte35_b64" THEN out ELSE params[k]]
                      Command(cmd, dur) ==
                          Built(IF cmd = S_time_signal_immediate
                                THEN build_time_signal_immediate_b64
                                ELSE IF cmd = S_splice_insert_out
                                THEN build_splice_insert_out_b64(dur)
                                ELSE S_empty)
                  IN  Command(build["command"].str,
                              IF "duration_s" \in DOMAIN build
                                 /\ "num" \in DOMAIN build["duration_s"]
                              THEN build["duration_s"].num ELSE 0)

\* obj.get("acquisitionSignalID").or_else(|| obj.get("AcquisitionSignalID")) ... unwrap_or("")
acq_id_of(obj) ==
    IF "acquisitionSignalID" \in DOMAIN obj THEN obj["acquisitionSignalID"]
    ELSE IF "AcquisitionSignalID" \in DOMAIN obj THEN obj["AcquisitionSignalID"]
    ELSE S_empty

\* the notification of the two branches of handle_esam_impl
response_xml(matched, obj) ==
    IF matched # None
    THEN build_notification(acq_id_of(obj), matched[1].action,
                            maybe_build_scte35(matched[1].params_json))
    ELSE build_notification(acq_id_of(obj), S_noop, EmptyObj)

\* the rules query and, without suspending, the match loop and the notification;
\* a store error answers 500 at once
EsamLoad(db_ok) ==
    /\ req.pc = "load"
    /\ IF ~db_ok
       THEN req' = [req EXCEPT !.pc = "done", !.status = 500]
       ELSE \E s \in order_by_priority(selected_rules(req.channel_id)) :
              LET Respond(loaded, matched) ==
                      req' = [req EXCEPT !.pc = "log", !.loaded = loaded,
                                         !.matched = matched,
                                         !.notification =
                                             Some(response_xml(matched, req.facts))]
                  Loaded(loaded) == Respond(loaded, match_loop(loaded, req.facts))
              IN  Loaded([i \in 1..Len(s) |-> rules[s[i]]])
    /\ UNCHANGED <<channels, rules, events, calls, match_vars, codec_vars, clock>>


\* log_esam_event called with no matched rule whatever the loop found
event_row_unmatched(channel_name, facts, matched_rule, response_status) ==
    [channel_name |-> channel_name,
     acquisition_signal_id |-> acq_id_of(facts),
     matched_rule_id |-> None,
     matched_rule_name |-> None,
     action |-> S_noop,
     response_status |-> response_status,
     error_message |-> None]

\* the row log_esam_event inserts
event_row(channel_name, facts, matched_rule, response_status) ==
    [channel_name |-> channel_name,
     acquisition_signal_id |-> acq_id_of(facts),
     matched_rule_id |-> IF matched_rule = None THEN None ELSE Some(matched_rule[1].id),
     matched_rule_name |-> IF matched_rule = None THEN None
                           ELSE Some(matched_rule[1].name),
     action |-> IF matched_rule = None THEN S_noop ELSE matched_rule[1].action,
     response_status |-> response_status,
     error_message |-> None]

\* log_esam_event(...).await with its result dropped (let _ =), then the 200
\* response; the INSERT may fail
EsamLog(db_ok) ==
    /\ req.pc = "log"
    /\ events' = IF db_ok
                 THEN Append(events, event_row(req.channel_name, req.facts, req.matched, 200))
                 ELSE events
    /\ req' = [req EXCEPT !.pc = "done", !.status = 200,
                          !.log_attempts = req.log_attempts + 1]
    /\ UNCHANGED <<channels, rules, calls, match_vars, codec_vars, clock>>

\* the response has been sent; the task ends
EsamFinish ==
    /\ req.pc = "done"
    /\ req' = ReqIdle
    /\ UNCHANGED <<channels, rules, events, calls, match_vars, codec_vars, clock>>

-----------------------------------------------------------------------------
(* The service: ESAM requests interleaved with CRUD calls *)

Init ==
    /\ channels = SeedChannels
    /\ rules = SeedRules
    /\ events = <<>>
    /\ req = ReqIdle
    /\ calls = 0
    /\ m_pc = "off"
    /\ m_doc = EmptyObj
    /\ m_facts = EmptyObj
    /\ m_matched = FALSE
    /\ clock = 0
    /\ c_pc = "off"
    /\ c_in = EmptyObj
    /\ c_sec = <<>>
    /\ c_out = EmptyObj

Next ==
    \/ \E a \in Addressing, b \in Bodies : EsamStart(a, b)
    \/ \E ok \in BOOLEAN : EsamLookup(ok)
    \/ \E ok \in BOOLEAN : EsamLoad(ok)
    \/ \E ok \in BOOLEAN : EsamLog(ok)
    \/ EsamFinish
    \/ \E c \in Callers, n \in ChannelNames, e \in OptBool : create_channel(c, n, e)
    \/ \E c \in Callers, i \in 1..MaxChannels, n \in ChannelNames, e \in OptBool :
          update_channel(c, i, n, e)
    \/ \E c \in Callers, i \in 1..MaxChannels : delete_channel(c, i)
    \/ \E c \in Callers, i \in 1..MaxChannels, p \in RuleInputs, q \in PriorityInputs,
          e \in OptBool : create_rule(c, i, p, q, e)
    \/ \E c \in Callers, i \in 1..MaxRules, p \in RuleInputs, q \in PriorityInputs \ {-1},
          e \in OptBool : update_rule(c, i, p, q, e)
    \/ \E c \in Callers, i \in 1..MaxRules : delete_rule(c, i)

-----------------------------------------------------------------------------
(* Matcher harness: one call of rule_matches on enumerated inputs *)

InitMatch ==
    /\ m_pc = "start"
    /\ m_doc \in MatchDocs
    /\ m_facts \in MatchFacts
    /\ m_matched = FALSE
    /\ channels = SeedChannels
    /\ rules = SeedRules
    /\ events = <<>>
    /\ req = ReqIdle
    /\ calls = 0
    /\ clock = 0
    /\ c_pc = "off"
    /\ c_in = EmptyObj
    /\ c_sec = <<>>
    /\ c_out = EmptyObj

\* the loop body of handle_esam_impl: rule_matches(&m, &obj)
EvalRule ==
    /\ m_pc = "start"
    /\ m_matched' = rule_matches(m_doc, m_facts)
    /\ m_pc' = "done"
    /\ UNCHANGED <<m_doc, m_facts>>
    /\ UNCHANGED <<pipe_vars, codec_vars, clock>>

NextMatch == EvalRule

-----------------------------------------------------------------------------
(* Pipeline harness: ESAM requests against a store that holds one rule *)

\* rule payloads: a delete rule for undecodable payloads, and replace rules
\* that match everything and differ in params.build
EsamRuleInputs ==
    {[name |-> "drop unknown",
      match_json |-> DocOf(None, Some(<<[k \in {"scte35.command"} |-> S_unknown]>>)),
      action |-> S_delete, params_json |-> EmptyObj],
     [name |-> "build time_signal_immediate", match_json |-> EmptyObj, action |-> S_replace,
      params_json |-> [build |-> [command |-> JStr(S_time_signal_immediate)],
                       note |-> S_operator_note]],
     [name |-> "build splice_insert_out 60", match_json |-> EmptyObj, action |-> S_replace,
      params_json |-> [build |-> [command |-> JStr(S_splice_insert_out),
                                  duration_s |-> JNum(60)],
                       scte35_b64 |-> S_b64_rule]],
     [name |-> "build splice_insert_out", match_json |-> EmptyObj, action |-> S_replace,
      params_json |-> [build |-> [command |-> JStr(S_splice_insert_out)]]],
     [name |-> "build time_signal", match_json |-> EmptyObj, action |-> S_replace,
      params_json |-> [build |-> [command |-> JStr(S_time_signal)]]],
     [name |-> "build bogus", match_json |-> EmptyObj, action |-> S_replace,
      params_json |-> [build |-> [command |-> JStr(S_bogus), duration_s |-> JNum(60)],
                       scte35_b64 |-> S_b64_rule, note |-> S_operator_note]],
     [name |-> "build 5", match_json |-> EmptyObj, action |-> S_replace,
      params_json |-> [build |-> [command |-> JNum(5)], scte35_b64 |-> S_b64_rule]],
     [name |-> "no build", match_json |-> EmptyObj, action |-> S_replace,
      params_json |-> [scte35_b64 |-> S_b64_rule]]}

\* the rules table holding payload p as its only row, on the seeded channel
StoreOf(p) ==
    <<[id |-> 1, channel_id |-> 1, name |-> p.name, priority |-> 0,
       enabled |-> 1, deleted |-> FALSE, match_json |-> p.match_json, action |-> p.action,
       params_json |-> p.params_json, owner |-> None]>>

InitEsam ==
    /\ channels = SeedChannels
    /\ rules \in {StoreOf(p) : p \in EsamRuleInputs}
    /\ events = <<>>
    /\ req = ReqIdle
    /\ calls = 0
    /\ m_pc = "off"
    /\ m_doc = EmptyObj
    /\ m_facts = EmptyObj
    /\ m_matched = FALSE
    /\ clock = 0
    /\ c_pc = "off"
    /\ c_in = EmptyObj
    /\ c_sec = <<>>
    /\ c_out = EmptyObj

\* the caller names no channel ("default" is used) or one the store lacks
EsamAddressing ==
    {[path |-> None, query |-> None, header |-> None],
     [path |-> Some(S_cnn), query |-> None, header |-> None]}

NextEsam ==
    \/ \E a \in EsamAddressing, b \in EsamBodies : EsamStart(a, b)
    \/ \E ok \in BOOLEAN : EsamLookup(ok)
    \/ \E ok \in BOOLEAN : EsamLoad(ok)
    \/ \E ok \in BOOLEAN : EsamLog(ok)
    \/ EsamFinish

-----------------------------------------------------------------------------
(* Deadline harness: ESAM requests on the seeded store while time passes *)

\* ten seconds pass while handle_esam_impl waits on a store call (.await of
\* fetch_optional, fetch_all or log_esam_event); nothing in the handler or in the
\* router bounds the wait
Tick ==
    /\ req.pc \in {"lookup", "load", "log"}
    /\ clock < MaxClock
    /\ clock' = clock + 1
    /\ UNCHANGED <<channels, rules, events, req, calls, match_vars, codec_vars>>

NextDeadline ==
    \/ \E a \in EsamAddressing, b \in Bodies : EsamStart(a, b)
    \/ \E ok \in BOOLEAN : EsamLookup(ok)
    \/ \E ok \in BOOLEAN : EsamLoad(ok)
    \/ \E ok \in BOOLEAN : EsamLog(ok)
    \/ EsamFinish
    \/ Tick

-----------------------------------------------------------------------------
(* Codec harness: sections built on request or assembled by hand, decoded *)
(* by decode_scte35_details (esam.rs) or decode_scte35_internal            *)
(* (tools_api.rs)                                                          *)

\* " 0X3a "
S_0X3a_padded == <<32, 48, 88, 51, 97, 32>>
\* "38"
S_38 == <<51, 56>>
\* "0x36"
S_0x36 == <<48, 120, 51, 54>>
\* "0x0C"
S_0x0C == <<48, 120, 48, 67>>
\* "0x09"
S_0x09 == <<48, 120, 48, 57>>
\* "zz"
S_zz == <<122, 122>>
\* "AB"
S_AB == <<65, 66>>
\* "0a0B"
S_0a0B == <<48, 97, 48, 66>>

\* the largest duration_seconds whose tick count fits 32 bits
MaxDurationSeconds == 47721

\* BuildRequest values for splice_insert_out without segmentation parameters
DurationRequests ==
    {[command |-> S_splice_insert_out, duration_seconds |-> d,
      segmentation_type_id |-> None, segmentation_upid_type |-> None,
      segmentation_upid |-> None] :
        d \in {None, Some(0), Some(1), Some(30), Some(23861), Some(MaxDurationSeconds)}}

\* BuildRequest values that carry segmentation parameters
AdvancedRequests ==
    {[command |-> c[1], duration_seconds |-> c[2],
      segmentation_type_id |-> Some(t), segmentation_upid_type |-> ut,
      segmentation_upid |-> uv] :
        c \in {<<S_time_signal, None>>, <<S_splice_insert_out, Some(30)>>},
        t \in {S_0x10, S_0x34, S_0x36, S_38, S_0X3a_padded},
        ut \in {None, Some(S_0x0C), Some(S_0x09)},
        uv \in {None, Some(<<>>), Some(S_AB), Some(S_0a0B)}}

\* BuildRequest values with no usable parameter, and one with no known command
OtherRequests ==
    {[command |-> c, duration_seconds |-> None,
      segmentation_type_id |-> t, segmentation_upid_type |-> None,
      segmentation_upid |-> None] :
        c \in {S_time_signal_immediate, S_splice_insert_out, S_bogus},
        t \in {None, Some(S_zz)}}

\* BuildRequest values for splice_insert_out whose tick count needs 33 bits
\* (95443 s), 34 bits (95444 s) and 41 bits (12216796 s)
LongDurationRequests ==
    {[command |-> S_splice_insert_out, duration_seconds |-> Some(d),
      segmentation_type_id |-> None, segmentation_upid_type |-> None,
      segmentation_upid |-> None] :
        d \in {95443, 95444, 12216796}}

BuildRequests ==
    DurationRequests \cup LongDurationRequests \cup AdvancedRequests \cup OtherRequests

\* splice_command_type of the commands assembled by hand
CommandTypeOf(kind) ==
    CASE kind = "splice_null" -> 0
      [] kind \in {"splice_insert_out", "splice_insert_pts"} -> 5
      [] kind \in {"time_signal_immediate", "time_signal_pts"} -> 6
      [] kind = "bandwidth_reservation" -> 7

\* the fields of each command after splice_command_type, as the decoders read
\* them: splice_null and bandwidth_reservation have none
CommandFields(kind) ==
    CASE kind \in {"splice_null", "bandwidth_reservation"} -> <<>>
      [] kind = "time_signal_immediate" -> << <<U64(0), 1>>, <<U64(127), 7>> >>
      [] kind = "time_signal_pts" ->
            << <<U64(1), 1>>, <<U64(63), 6>>, <<U64(900000), 33>> >>
      [] kind = "splice_insert_out" ->
            << <<U64(1), 32>>, <<U64(0), 1>>, <<U64(127), 7>>,
               <<U64(1), 1>>, <<U64(1), 1>>, <<U64(1), 1>>, <<U64(1), 1>>, <<U64(15), 4>>,
               <<U64(1), 1>>, <<U64(63), 6>>, <<dur90k(30), 33>>,
               <<U64(1), 16>>, <<U64(0), 8>>, <<U64(0), 8>> >>
      [] kind = "splice_insert_pts" ->
            << <<U64(7), 32>>, <<U64(0), 1>>, <<U64(127), 7>>,
               <<U64(1), 1>>, <<U64(1), 1>>, <<U64(0), 1>>, <<U64(0), 1>>, <<U64(15), 4>>,
               <<U64(1), 1>>, <<U64(63), 6>>, <<U64(900000), 33>>,
               <<U64(1), 16>>, <<U64(0), 8>>, <<U64(0), 8>> >>

CommandKinds ==
    {"splice_null", "bandwidth_reservation", "time_signal_immediate", "time_signal_pts",
     "splice_insert_out", "splice_insert_pts"}

\* the section up to the end of the command, splice_command_length not yet set
command_written(kind) ==
    emit(section_prefix, << <<U64(CommandTypeOf(kind)), 8>> >> \o CommandFields(kind))

\* the bytes of the command after splice_command_type
CommandBytes(kind) == (command_written(kind).bitpos - 112) \div 8

\* a well-formed section: the command, splice_command_length as given, one
\* segmentation descriptor of type 0x34 with the default UPID, padding and CRC
assembled_section(kind, splice_command_length) ==
    LET Finish(w) ==
            b64_encode(finalize_with_crc32(
                add_segmentation_descriptor(w, None, Some(52), None, None),
                SectionLengthPos))
    IN  Finish(patch_bits(command_written(kind), 92, splice_command_length, 12))

\* the values of splice_command_length tried for a command: the size of the
\* command, the size the builders write (splice_command_type included),
\* 0xFFF, and values that fit neither
CommandLengths(kind) == {CommandBytes(kind), CommandBytes(kind) + 1, 4095, 0, 100}


\* calls of the two splice_insert IN builders: pts_time is 900000, 0, the
\* largest 33-bit value, or a u64 with all bits set
InBuilderCalls ==
    {[builder |-> "splice_insert_in", pts_time |-> None]}
    \cup {[builder |-> "splice_insert_in_with_pts", pts_time |-> Some(p)] :
            p \in {U64(900000), U64(0), zext(Tup([i \in 1..33 |-> 1], 33)),
                   Tup([i \in 1..64 |-> 1], 64)}}

InitCodec ==
    /\ channels = SeedChannels
    /\ rules = SeedRules
    /\ events = <<>>
    /\ req = ReqIdle
    /\ calls = 0
    /\ m_pc = "off"
    /\ m_doc = EmptyObj
    /\ m_facts = EmptyObj
    /\ m_matched = FALSE
    /\ clock = 0
    /\ c_out = EmptyObj
    /\ \/ /\ c_pc = "request"
          /\ c_in \in BuildRequests
          /\ c_sec = <<>>
       \/ /\ c_pc = "call"
          /\ c_in \in InBuilderCalls
          /\ c_sec = <<>>
       \/ /\ c_pc = "section"
          /\ \E k \in CommandKinds : \E n \in CommandLengths(k) :
                /\ c_in = [kind |-> k, splice_command_length |-> n]
                /\ c_sec = assembled_section(k, n)

\* POST /api/tools/scte35/build: build_scte35_internal on the request
CodecBuild ==
    /\ c_pc = "request"
    /\ LET Answer(r) ==
            /\ c_pc' = IF r.ok THEN "section" ELSE "failed"
            /\ c_sec' = r.b64
       IN  Answer(build_scte35_internal(c_in))
    /\ UNCHANGED <<c_in, c_out, pipe_vars, match_vars, clock>>


\* build_splice_insert_in_b64() or build_splice_insert_in_with_pts_b64(pts_time)
CodecBuildIn ==
    /\ c_pc = "call"
    /\ c_pc' = "section"
    /\ c_sec' = IF c_in.pts_time = None THEN build_splice_insert_in_b64
                ELSE build_splice_insert_in_with_pts_b64(c_in.pts_time[1])
    /\ UNCHANGED <<c_in, c_out, pipe_vars, match_vars, clock>>

\* extract_facts hands the BinaryData text to decode_scte35_details
CodecDecodeEsam ==
    /\ c_pc = "section"
    /\ c_pc' = "esam"
    /\ c_out' = decode_scte35_details(c_sec)
    /\ UNCHANGED <<c_in, c_sec, pipe_vars, match_vars, clock>>

\* POST /api/tools/scte35/decode: decode_scte35_internal on the text
CodecDecodeTools ==
    /\ c_pc = "section"
    /\ c_pc' = "tools"
    /\ c_out' = decode_scte35_internal(c_sec)
    /\ UNCHANGED <<c_in, c_sec, pipe_vars, match_vars, clock>>

NextCodec == CodecBuild \/ CodecBuildIn \/ CodecDecodeEsam \/ CodecDecodeTools



-----------------------------------------------------------------------------
(* A harness for BitReader: calls of read_bits and skip_bits, in any order, on
   one buffer *)

\* bitpos values the harness lets a reader run up to
MaxReaderBits == 32

\* the buffers read, of 0 to 3 bytes
ReaderBuffers == {<<>>, <<252>>, <<252, 48>>, <<252, 48, 17>>}

\* the nbits of the calls
ReaderWidths == {0, 1, 3, 8, 12}

\* c_in is the buffer; c_out is the reader with the last call: bitpos after
\* it, before the bitpos it began at, ok whether it returned Ok
InitReader ==
    /\ channels = SeedChannels
    /\ rules = SeedRules
    /\ events = <<>>
    /\ req = ReqIdle
    /\ calls = 0
    /\ m_pc = "off"
    /\ m_doc = EmptyObj
    /\ m_facts = EmptyObj
    /\ m_matched = FALSE
    /\ clock = 0
    /\ c_pc = "reader"
    /\ c_in \in ReaderBuffers
    /\ c_sec = <<>>
    /\ c_out = [call |-> "new", nbits |-> 0, before |-> 0,
                bitpos |-> BitReader_new(c_in).bitpos, ok |-> TRUE]

\* br.read_bits(nbits)
ReaderRead ==
    /\ c_pc = "reader"
    /\ \E nbits \in ReaderWidths :
          /\ c_out.bitpos + nbits <= MaxReaderBits
          /\ LET Returned(r) ==
                    c_out' = [call |-> "read_bits", nbits |-> nbits, before |-> c_out.bitpos,
                              bitpos |-> r.br.bitpos, ok |-> r.ok]
             IN  Returned(read_bits([data |-> c_in, bitpos |-> c_out.bitpos], nbits))
    /\ UNCHANGED <<c_pc, c_in, c_sec, pipe_vars, match_vars, clock>>

\* br.skip_bits(nbits)
ReaderSkip ==
    /\ c_pc = "reader"
    /\ \E nbits \in ReaderWidths :
          /\ c_out.bitpos + nbits <= MaxReaderBits
          /\ LET Returned(r) ==
                    c_out' = [call |-> "skip_bits", nbits |-> nbits, before |-> c_out.bitpos,
                              bitpos |-> r.br.bitpos, ok |-> r.ok]
             IN  Returned(skip_bits([data |-> c_in, bitpos |-> c_out.bitpos], nbits))
    /\ UNCHANGED <<c_pc, c_in, c_sec, pipe_vars, match_vars, clock>>

NextReader == ReaderRead \/ ReaderSkip


-----------------------------------------------------------------------------
(* A harness for glob_match: one call on an enumerated pattern and text *)

\* longest pattern and text enumerated letter by letter
MaxGlobLen == 3

\* all strings of at most MaxGlobLen bytes out of alphabet
StringsOver(alphabet) ==
    UNION {[1..n -> alphabet] : n \in 0..MaxGlobLen}

\* patterns of 'A', 'B' and at most one '*', and two signal id patterns
GlobPatterns ==
    {p \in StringsOver({65, 66, 42}) : Cardinality({i \in 1..Len(p) : p[i] = 42}) <= 1}
        \cup {S_ACQ_star_OUT, S_ACQ_OUT}

\* texts of 'A' and 'B', and signal ids
GlobTexts ==
    StringsOver({65, 66}) \cup {S_ACQ_OUT, S_ACQ__OUT, S_ACQ_123_OUT, S_ACQ_OUT_EXTRA}

\* m_doc is the pattern, m_facts the text
InitGlob ==
    /\ m_pc = "glob"
    /\ m_doc \in GlobPatterns
    /\ m_facts \in GlobTexts
    /\ m_matched = FALSE
    /\ channels = SeedChannels
    /\ rules = SeedRules
    /\ events = <<>>
    /\ req = ReqIdle
    /\ calls = 0
    /\ clock = 0
    /\ c_pc = "off"
    /\ c_in = EmptyObj
    /\ c_sec = <<>>
    /\ c_out = EmptyObj

\* glob_match(pat, text)
GlobEval ==
    /\ m_pc = "glob"
    /\ m_matched' = glob_match(m_doc, m_facts)
    /\ m_pc' = "globbed"
    /\ UNCHANGED <<m_doc, m_facts>>
    /\ UNCHANGED <<pipe_vars, codec_vars, clock>>

NextGlob == GlobEval


-----------------------------------------------------------------------------
(* A harness for create_rule with priority -1: requests in flight together,
   each with its two statements, SELECT MAX(priority) and INSERT, as two steps *)

\* create_rule requests in flight
MaxAppenders == 3

\* the store the requests meet: the seeded channel with its rule, and a
\* channel of user 2 without rules
AppendChannels ==
    SeedChannels
        \o <<[id |-> 2, name |-> S_cnn, enabled |-> 1, deleted |-> FALSE, owner |-> Some(2)]>>

\* c_in[r] is request r: its channel, where it stands ("start", "read",
\* "done"), nextp once read, and whether the SELECT failed
InitAppend ==
    /\ channels = AppendChannels
    /\ rules = SeedRules
    /\ events = <<>>
    /\ req = ReqIdle
    /\ calls = 0
    /\ m_pc = "off"
    /\ m_doc = EmptyObj
    /\ m_facts = EmptyObj
    /\ m_matched = FALSE
    /\ clock = 0
    /\ c_pc = "append"
    /\ c_in \in [1..MaxAppenders ->
                    {[channel_id |-> ch, pc |-> "start", nextp |-> 0, select_ok |-> TRUE] :
                        ch \in 1..Len(AppendChannels)}]
    /\ c_sec = <<>>
    /\ c_out = EmptyObj

\* create_rule up to `let nextp = maxp.map(|t| t.0 + 10).unwrap_or(0)`; a
\* failed SELECT is turned into None by .ok()
AppendSelect(r, ok) ==
    /\ c_pc = "append"
    /\ c_in[r].pc = "start"
    /\ owner_check([sub |-> 1, role |-> "admin"], channels, c_in[r].channel_id) = "ok"
    /\ c_in' = [c_in EXCEPT ![r].pc = "read",
                            ![r].nextp = IF ok THEN next_priority(c_in[r].channel_id) ELSE 0,
                            ![r].select_ok = ok]
    /\ UNCHANGED <<c_pc, c_sec, c_out, pipe_vars, match_vars, clock>>

\* create_rule from `if p.priority < 0 { p.priority = nextp; }` on: the INSERT
AppendInsert(r, ok) ==
    /\ c_pc = "append"
    /\ c_in[r].pc = "read"
    /\ rules' = IF ok
                THEN Append(rules,
                            [id |-> Len(rules) + 1, channel_id |-> c_in[r].channel_id,
                             name |-> "pass", priority |-> c_in[r].nextp,
                             enabled |-> 1, deleted |-> FALSE, match_json |-> EmptyObj,
                             action |-> S_noop, params_json |-> EmptyObj,
                             owner |-> Some(1)])
                ELSE rules
    /\ c_in' = [c_in EXCEPT ![r].pc = "done"]
    /\ UNCHANGED <<channels, events, req, calls, c_pc, c_sec, c_out, match_vars, clock>>

NextAppend ==
    \/ \E r \in 1..MaxAppenders, ok \in BOOLEAN : AppendSelect(r, ok)
    \/ \E r \in 1..MaxAppenders, ok \in BOOLEAN : AppendInsert(r, ok)


-----------------------------------------------------------------------------
(* jwt_auth.rs: API tokens.  c_in is the api_tokens table, clock the day; the
   JWT returned for a row is kept beside the row, as its claims; c_out is the
   last validate_token call *)

\* rows of api_tokens, and days followed
MaxTokens == 3
MaxTokenDays == 2

\* ids of the rows of users
UserIds == {1, 2}

\* expires_in_days of CreateTokenRequest
ExpiresInDays == {None, Some(1)}

\* JwtService::generate_api_token(_token_id, user_id, username, role,
\* expires_in_days): the claims signed; sub is user_id.to_string()
generate_api_token(token_id, user_id, expires_in_days, now) ==
    [sub |-> user_id, token_type |-> "api",
     exp |-> now + (IF expires_in_days = None THEN 365 ELSE expires_in_days[1]),
     iat |-> now]

\* JwtService::decode_token on a token this service signed: the claims, unless
\* claims.exp < now
decode_token(claims, now) ==
    IF claims.exp < now THEN [ok |-> FALSE, err |-> "Token expired"]
    ELSE [ok |-> TRUE, err |-> ""]

\* AuthService::validate_token: for an API token, claims.sub is parsed as the
\* token id and "SELECT revoked FROM api_tokens WHERE id = ?" is fetched
validate_token(claims, table, now) ==
    IF ~decode_token(claims, now).ok THEN decode_token(claims, now)
    ELSE IF claims.token_type # "api" THEN [ok |-> TRUE, err |-> ""]
    ELSE IF claims.sub \notin 1..Len(table) THEN [ok |-> FALSE, err |-> "RowNotFound"]
    ELSE IF table[claims.sub].revoked THEN [ok |-> FALSE, err |-> "Token revoked"]
    ELSE [ok |-> TRUE, err |-> ""]

InitToken ==
    /\ channels = SeedChannels
    /\ rules = SeedRules
    /\ events = <<>>
    /\ req = ReqIdle
    /\ calls = 0
    /\ m_pc = "off"
    /\ m_doc = EmptyObj
    /\ m_facts = EmptyObj
    /\ m_matched = FALSE
    /\ clock = 0
    /\ c_pc = "tokens"
    /\ c_in = <<>>
    /\ c_sec = <<>>
    /\ c_out = EmptyObj

\* AuthService::create_api_token(name, user_id, expires_in_days)
TokenCreate(user_id, expires_in_days) ==
    /\ c_pc = "tokens"
    /\ Len(c_in) < MaxTokens
    /\ c_in' = Append(c_in,
                      [id |-> Len(c_in) + 1, user_id |-> user_id, revoked |-> FALSE,
                       jwt |-> generate_api_token(Len(c_in) + 1, user_id, expires_in_days,
                                                  clock)])
    /\ UNCHANGED <<c_pc, c_sec, c_out, pipe_vars, match_vars, clock>>

\* AuthService::validate_token on the JWT returned for row t
TokenValidate(t) ==
    /\ c_pc = "tokens"
    /\ t \in 1..Len(c_in)
    /\ c_out' = [token |-> t, result |-> validate_token(c_in[t].jwt, c_in, clock)]
    /\ UNCHANGED <<c_pc, c_in, c_sec, pipe_vars, match_vars, clock>>

\* AuthService::revoke_token(token_id); the result of the call before is
\* forgotten
TokenRevoke(token_id) ==
    /\ c_pc = "tokens"
    /\ token_id \in 1..Len(c_in)
    /\ ~c_in[token_id].revoked
    /\ c_in' = [c_in EXCEPT ![token_id].revoked = TRUE]
    /\ c_out' = EmptyObj
    /\ UNCHANGED <<c_pc, c_sec, pipe_vars, match_vars, clock>>

\* a day passes
TokenDay ==
    /\ c_pc = "tokens"
    /\ clock < MaxTokenDays
    /\ clock' = clock + 1
    /\ c_out' = EmptyObj
    /\ UNCHANGED <<c_pc, c_in, c_sec, pipe_vars, match_vars>>

NextToken ==
    \/ \E u \in UserIds, d \in ExpiresInDays : TokenCreate(u, d)
    \/ \E t \in 1..MaxTokens : TokenValidate(t)
    \/ \E t \in 1..MaxTokens : TokenRevoke(t)
    \/ TokenDay


-----------------------------------------------------------------------------
(* main.rs: the events API (list_events, get_event_stats, get_event_detail)
   over the channels and events tables.  An event's id is its index in
   events; c_out is the last response, with the channels table as it was
   read and the limit handed to the store *)

\* rows of esam_events
MaxEvents == 2

\* str::parse::<i64>() of a query value: an optional sign, then decimal digits
parse_i64(s) ==
    LET digits == IF s # <<>> /\ s[1] \in {43, 45} THEN Tail(s) ELSE s
        Value[k \in 0..Len(digits)] ==
            IF k = 0 THEN 0 ELSE (Value[k - 1] * 10) + (digits[k] - 48)
    IN  IF digits = <<>> \/ \E i \in 1..Len(digits) : digits[i] \notin 48..57 THEN None
        ELSE Some(IF s[1] = 45 THEN 0 - Value[Len(digits)] ELSE Value[Len(digits)])

\* params.get(key).and_then(|s| s.parse().ok()).unwrap_or(default)
parsed_or(params, key, default) ==
    IF key \notin DOMAIN params \/ parse_i64(params[key]) = None THEN default
    ELSE parse_i64(params[key])[1]

\* list_events: let limit = ... .unwrap_or(100).min(1000)
page_limit(params) ==
    IF parsed_or(params, "limit", 100) < 1000 THEN parsed_or(params, "limit", 100) ELSE 1000

\* "SELECT name FROM channels WHERE deleted_at IS NULL", whoever the owner
all_channels(user_id) ==
    {channels[i].name : i \in {j \in 1..Len(channels) : ~channels[j].deleted}}

\* "SELECT name FROM channels WHERE owner_user_id = ? AND deleted_at IS NULL"
owned_channels(user_id) ==
    {channels[i].name : i \in {j \in 1..Len(channels) :
                                  channels[j].owner = Some(user_id) /\ ~channels[j].deleted}}

\* the ids a query WHERE channel_name = ? AND action = ? selects, each test
\* only if its filter is given
filtered_events(filters) ==
    {id \in 1..Len(events) :
        /\ filters.channel_name # None => events[id].channel_name = filters.channel_name[1]
        /\ filters.action # None => events[id].action = filters.action[1]}

\* ids in ORDER BY timestamp DESC: the latest row first
RECURSIVE latest_first(_)
latest_first(ids) ==
    IF ids = {} THEN <<>>
    ELSE LET last == CHOOSE m \in ids : \A q \in ids : q <= m
         IN  <<last>> \o latest_first(ids \ {last})

\* EventLogger::get_recent_events(limit, offset, filters), no since given:
\* ... ORDER BY timestamp DESC LIMIT ? OFFSET ?; SQLite takes a negative LIMIT
\* as no limit and a negative OFFSET as 0
get_recent_events(limit, offset, filters) ==
    LET Page(rows, from) ==
            SubSeq(rows, from + 1,
                   IF limit < 0 \/ from + limit > Len(rows) THEN Len(rows) ELSE from + limit)
    IN  Page(latest_first(filtered_events(filters)), IF offset < 0 THEN 0 ELSE offset)

\* the rows of a list a non-admin caller is left with
RECURSIVE keep_owned(_, _)
keep_owned(ids, names) ==
    IF ids = <<>> THEN <<>>
    ELSE (IF events[Head(ids)].channel_name \in names THEN <<Head(ids)>> ELSE <<>>)
            \o keep_owned(Tail(ids), names)

\* query parameters of GET /api/events
EventParams ==
    {[k \in (IF ch = None THEN {} ELSE {"channel"}) \cup (IF l = None THEN {} ELSE {"limit"})
        |-> IF k = "channel" THEN ch[1] ELSE l[1]] :
        ch \in {None, Some(S_default)},
        l \in {None, Some(S_0), Some(S_minus5), Some(S_5000), Some(S_many)}}

Answer(handler, caller, status, ids, limit) ==
    [handler |-> handler, caller |-> caller, status |-> status, events |-> ids,
     limit |-> limit, channels |-> channels]

InitEvents ==
    /\ channels = SeedChannels
    /\ rules = SeedRules
    /\ events = <<>>
    /\ req = ReqIdle
    /\ calls = 0
    /\ m_pc = "off"
    /\ m_doc = EmptyObj
    /\ m_facts = EmptyObj
    /\ m_matched = FALSE
    /\ clock = 0
    /\ c_pc = "events"
    /\ c_in = EmptyObj
    /\ c_sec = <<>>
    /\ c_out = EmptyObj

\* an ESAM request for channel `name` ran to its log_esam_event: the channel
\* was found enabled and not deleted, no rule matched
EventLogged(name) ==
    /\ c_pc = "events"
    /\ Len(events) < MaxEvents
    /\ \E i \in 1..Len(channels) :
          channels[i].name = name /\ channels[i].enabled = 1 /\ ~channels[i].deleted
    /\ events' = Append(events, event_row(name, EmptyObj, None, 200))
    /\ UNCHANGED <<channels, rules, req, calls, match_vars, codec_vars, clock>>

\* list_events; db_ok tells whether the second ownership query succeeds;
\* owned_channels[0] is whichever row the first one returned first
list_events(caller, params, db_ok) ==
    /\ c_pc = "events"
    /\ LET Listed(limit, channel_filter) ==
               LET rows == get_recent_events(limit, parsed_or(params, "offset", 0),
                                             [channel_name |-> channel_filter,
                                              action |-> None])
               IN  Answer("list_events", caller, 200,
                          IF caller.role # "admin"
                          THEN keep_owned(rows, IF db_ok THEN owned_channels(caller.sub)
                                                ELSE {})
                          ELSE rows,
                          Some(limit))
       IN  IF caller.role # "admin"
           THEN IF owned_channels(caller.sub) = {}
                THEN c_out' = Answer("list_events", caller, 200, <<>>, None)
                ELSE \E first \in owned_channels(caller.sub) :
                        c_out' = Listed(page_limit(params),
                                        IF "channel" \in DOMAIN params
                                        THEN Some(params["channel"]) ELSE Some(first))
           ELSE c_out' = Listed(page_limit(params),
                                IF "channel" \in DOMAIN params
                                THEN Some(params["channel"]) ELSE None)
    /\ UNCHANGED <<c_pc, c_in, c_sec, pipe_vars, match_vars, clock>>

\* get_event_stats: the rows counted in total_events
get_event_stats(caller) ==
    /\ c_pc = "events"
    /\ c_out' = Answer("get_event_stats", caller, 200,
                       latest_first(IF caller.role # "admin"
                                    THEN {id \in 1..Len(events) :
                                            events[id].channel_name
                                               \in owned_channels(caller.sub)}
                                    ELSE 1..Len(events)),
                       None)
    /\ UNCHANGED <<c_pc, c_in, c_sec, pipe_vars, match_vars, clock>>

\* get_event_detail: "SELECT 1 FROM channels WHERE name = ? AND owner_user_id
\* = ? AND deleted_at IS NULL" for a non-admin caller; a failed query reads as
\* no row
get_event_detail(caller, id, db_ok) ==
    /\ c_pc = "events"
    /\ c_out' = IF id \notin 1..Len(events)
                THEN Answer("get_event_detail", caller, 404, <<>>, None)
                ELSE IF caller.role # "admin"
                        /\ ~(db_ok /\ events[id].channel_name \in owned_channels(caller.sub))
                THEN Answer("get_event_detail", caller, 403, <<>>, None)
                ELSE Answer("get_event_detail", caller, 200, <<id>>, None)
    /\ UNCHANGED <<c_pc, c_in, c_sec, pipe_vars, match_vars, clock>>

NextEvents ==
    \/ \E n \in ChannelNames : EventLogged(n)
    \/ \E c \in Callers, n \in ChannelNames : create_channel(c, n, None)
    \/ \E c \in Callers, i \in 1..MaxChannels, n \in ChannelNames : update_channel(c, i, n, None)
    \/ \E c \in Callers, i \in 1..MaxChannels : delete_channel(c, i)
    \/ \E c \in Callers, p \in EventParams, ok \in BOOLEAN : list_events(c, p, ok)
    \/ \E c \in Callers : get_event_stats(c)
    \/ \E c \in Callers, id \in 1..MaxEvents, ok \in BOOLEAN : get_event_detail(c, id, ok)

vars == <<m_pc, m_doc, m_facts, m_matched, channels, rules, events, req, calls, clock,
         c_pc, c_in, c_sec, c_out>>

SpecMatch == InitMatch /\ [][NextMatch]_vars

SpecEsam == InitEsam /\ [][NextEsam]_vars

SpecDeadline == Init /\ [][NextDeadline]_vars

SpecCodec == InitCodec /\ [][NextCodec]_vars

SpecReader == InitReader /\ [][NextReader]_vars

SpecGlob == InitGlob /\ [][NextGlob]_vars

SpecAppend == InitAppend /\ [][NextAppend]_vars

SpecToken == InitToken /\ [][NextToken]_vars

SpecEvents == InitEvents /\ [][NextEvents]_vars

Spec == Init /\ [][Next]_vars

-----------------------------------------------------------------------------
(* Claims about the rule matcher, checked under SpecMatch *)

\* the harness evaluated a rule whose match document is {"allOf": [c]}
SingleAllOf ==
    /\ m_pc = "done"
    /\ DOMAIN m_doc = {"allOf"}
    /\ Len(m_doc["allOf"]) = 1

\* atom k of condition cond, taken alone, holds of facts: its fact exists and compares
AtomSatisfied(k, cond, facts) ==
    /\ FactKeyOf(k) \in DOMAIN facts
    /\ CASE k = "acquisitionSignalID" -> glob_match(cond[k], facts[k])
         [] k = "scte35.command" -> eq_ignore_ascii_case(facts[k], cond[k])
         [] k = "scte35.segmentation_type_id" -> eq_ignore_ascii_case(facts[k], cond[k])
         [] k = "scte35.segmentation_upid" -> glob_match(cond[k], facts[k])
         [] k = "utcBetween" ->
              /\ str_le(IF "start" \in DOMAIN cond[k] THEN cond[k]["start"] ELSE S_empty,
                        facts["utcPoint"])
              /\ str_le(facts["utcPoint"],
                        IF "end" \in DOMAIN cond[k] THEN cond[k]["end"] ELSE S_tilde)

\* C4 (as claimed): a match document with only an anyOf array matches the facts
\* if and only if at least one of its anyOf conditions is satisfied.
C4_AnyOfOnlyIsOr ==
    (m_pc = "done" /\ DOMAIN m_doc = {"anyOf"}) =>
        (m_matched <=> \E i \in 1..Len(m_doc["anyOf"]) : eval(m_doc["anyOf"][i], m_facts))

\* C5: rule_matches(m, f) is true exactly when (anyOf is present and some anyOf
\* condition is satisfied) or (allOf is absent or every allOf condition is
\* satisfied); so the empty matcher matches every facts map.
C5_RuleMatchesLaw ==
    m_pc = "done" =>
        (m_matched <=>
            \/ /\ "anyOf" \in DOMAIN m_doc
               /\ \E i \in 1..Len(m_doc["anyOf"]) : eval(m_doc["anyOf"][i], m_facts)
            \/ "allOf" \notin DOMAIN m_doc
            \/ /\ "allOf" \in DOMAIN m_doc
               /\ \A i \in 1..Len(m_doc["allOf"]) : eval(m_doc["allOf"][i], m_facts))

\* C5 witness: both arrays present, allOf fails, one anyOf condition holds, rule matched
C5_Witness ==
    /\ m_pc = "done"
    /\ DOMAIN m_doc = {"anyOf", "allOf"}
    /\ \E i \in 1..Len(m_doc["allOf"]) : ~eval(m_doc["allOf"][i], m_facts)
    /\ Len(m_doc["anyOf"]) = 2
    /\ ~eval(m_doc["anyOf"][1], m_facts)
    /\ eval(m_doc["anyOf"][2], m_facts)
    /\ m_matched

\* C6 (as claimed): a condition object with several recognised atoms is satisfied
\* only if every one of its atoms is satisfied by the facts.
C6_KeysAndCombined ==
    (SingleAllOf /\ m_matched) =>
        \A k \in DOMAIN m_doc["allOf"][1] \cap AtomKeys :
            AtomSatisfied(k, m_doc["allOf"][1], m_facts)

\* C7 (as claimed): a condition object naming a recognised atom whose fact is
\* absent from the facts is not satisfied, whatever else the object contains.
C7_AtomNeedsFact ==
    (SingleAllOf /\ \E k \in DOMAIN m_doc["allOf"][1] \cap AtomKeys :
                        FactKeyOf(k) \notin DOMAIN m_facts)
        => ~m_matched

-----------------------------------------------------------------------------
(* Claims about the ESAM pipeline, checked under Spec *)

\* the request got past the rules query: its loaded list and matched rule are set
Decided == req.pc = "log" \/ (req.pc = "done" /\ req.status = 200)

\* C1: the rule the pipeline applies is the first rule of the loaded list (the
\* channel's enabled, non-deleted rules in evaluation order) that matches the
\* facts; no later rule is applied when an earlier one matches, and none is
\* applied when none matches.
C1_FirstMatchWins ==
    Decided =>
        LET R == req.loaded
            f == req.facts
        IN  /\ \A i \in 1..Len(R) :
                  R[i].channel_id = req.channel_id /\ R[i].enabled = 1 /\ ~R[i].deleted
            /\ req.matched = None <=>
                  \A i \in 1..Len(R) : ~rule_matches(R[i].match_json, f)
            /\ req.matched # None =>
                  \E i \in 1..Len(R) :
                      /\ R[i].id = req.matched[1].id
                      /\ rule_matches(R[i].match_json, f)
                      /\ \A j \in 1..(i - 1) : ~rule_matches(R[j].match_json, f)
                      /\ req.notification[1].action = xml_escape(R[i].action)
            /\ req.matched = None => req.notification[1].action = S_noop

\* C1 witness: the first loaded rule does not match, the second does and is applied
C1_Witness ==
    /\ Decided
    /\ Len(req.loaded) >= 2
    /\ ~rule_matches(req.loaded[1].match_json, req.facts)
    /\ rule_matches(req.loaded[2].match_json, req.facts)
    /\ req.matched # None
    /\ req.matched[1].id = req.loaded[2].id

\* C2 (as claimed): every response to POST /esam* is paired with exactly one
\* EventRecord insertion attempt.
C2_EventCountLaw ==
    req.pc = "done" => req.log_attempts = 1

\* C3 (as claimed): when the effective action is noop and the inbound event
\* carried BinaryData = B, the notification has a sig:BinaryData whose content is B.
C3_NoopPassThrough ==
    (/\ req.pc = "done"
     /\ req.status = 200
     /\ "scte35_b64" \in DOMAIN req.facts
     /\ \/ req.matched = None
        \/ /\ req.matched # None
           /\ req.matched[1].action = S_noop
           /\ "scte35_b64" \notin DOMAIN req.matched[1].params_json)
    => /\ req.notification[1].BinaryData # None
       /\ unescape(req.notification[1].BinaryData[1]) = Some(req.facts["scte35_b64"])

\* C8 (as claimed): the loaded rules are in ascending priority and, among rules
\* of equal priority, in ascending id.
C8_TieBreakById ==
    Decided =>
        \A i, j \in 1..Len(req.loaded) :
            i < j =>
                \/ req.loaded[i].priority < req.loaded[j].priority
                \/ /\ req.loaded[i].priority = req.loaded[j].priority
                   /\ req.loaded[i].id < req.loaded[j].id

\* C9 (as claimed): at the read of the rule list, every rule in it is enabled and
\* not soft-deleted and its channel is enabled and not soft-deleted.
C9_NoDeletedAtRead ==
    [][(req.pc = "load" /\ req'.pc = "log") =>
          \A i \in 1..Len(req'.loaded) :
              /\ rules[req'.loaded[i].id].enabled = 1
              /\ ~rules[req'.loaded[i].id].deleted
              /\ channels[req'.loaded[i].channel_id].enabled = 1
              /\ ~channels[req'.loaded[i].channel_id].deleted]_vars

\* C10 (as claimed): the channel is taken from the URL path, else the ?channel=
\* query parameter, else the X-POIS-Channel header, else the ChannelName fact.
C10_ChannelResolution ==
    req.pc = "lookup" =>
        req.channel_name =
            IF req.path # None THEN req.path[1]
            ELSE IF req.query # None THEN req.query[1]
            ELSE IF req.header # None THEN req.header[1]
            ELSE IF "ChannelName" \in DOMAIN req.facts THEN req.facts["ChannelName"]
            ELSE S_default

\* C11 (as claimed): a parsed request whose resolved channel does not exist, is
\* disabled or is soft-deleted is answered 404, and exactly one EventRecord with
\* action noop and response_status 404 is written for it.
C11_UnknownChannelLogged ==
    (req.pc = "done" /\ req.status = 404) =>
        /\ req.log_attempts = 1
        /\ Len(events) >= 1
        /\ events[Len(events)].action = S_noop
        /\ events[Len(events)].response_status = 404

\* C12: every EventRecord the pipeline writes carries the action attribute of the
\* notification returned for that request: the matched rule's action with that
\* rule's id and name when a rule matched, and noop with no rule id and no rule
\* name when none matched.
C12_EventActionIsDecision ==
    [][Len(events') = Len(events) + 1 =>
          LET row == events'[Len(events')]
          IN  /\ unescape(req.notification[1].action) = Some(row.action)
              /\ req.matched # None =>
                    /\ row.action = req.matched[1].action
                    /\ row.matched_rule_id = Some(req.matched[1].id)
                    /\ row.matched_rule_name = Some(req.matched[1].name)
              /\ req.matched = None =>
                    /\ row.action = S_noop
                    /\ row.matched_rule_id = None
                    /\ row.matched_rule_name = None]_vars

\* C12 witness: an EventRecord written for a request that a delete rule matched
C12_Witness ==
    \E i \in 1..Len(events) :
        /\ events[i].action = S_delete
        /\ events[i].matched_rule_id # None

-----------------------------------------------------------------------------
(* Claims about decode and build failures, checked under SpecEsam *)

\* the BinaryData text is not decoded: it is not Base64, its bytes do not start
\* with table_id 0xFC, or decode_scte35_details ends in an out-of-bounds read
DecodeFails(b64) ==
    LET d == b64_decode(b64)
    IN  \/ d = None
        \/ d[1] = <<>>
        \/ d[1][1] # 252
        \/ ~decode_scte35_details(b64).ok

\* the fact keys a decoded payload adds
EnrichmentKeys ==
    {"scte35.segmentation_type_id", "scte35.segmentation_type_name",
     "scte35.segmentation_upid", "scte35.upid_type_name", "scte35.pts_time"}

\* facts of a request whose payload was not decoded
UnknownFacts(facts) ==
    /\ facts["scte35.command"] = S_unknown
    /\ DOMAIN facts \cap EnrichmentKeys = {}

\* C13: a decode failure is not fatal.  For a BinaryData text that is bad Base64,
\* does not start with 0xFC or runs out of bounds, extract_facts succeeds with
\* scte35.command = "unknown" and no enrichment key; the request goes through
\* the match loop (a rule on scte35.command "unknown" with action delete yields
\* "delete") and, once logged, is answered with 200.
C13_DecodeFailureNotFatal ==
    /\ \A t \in PayloadTexts :
          DecodeFails(t) => ParsedBody[BodyWith(t)].ok
                            /\ UnknownFacts(ParsedBody[BodyWith(t)].facts)
    /\ (req.pc \in {"lookup", "load", "log", "done"}
          /\ "scte35_b64" \in DOMAIN req.facts
          /\ DecodeFails(req.facts["scte35_b64"])) =>
            /\ UnknownFacts(req.facts)
            /\ req.status # 400
            /\ req.pc = "log" =>
                  /\ req.matched = match_loop(req.loaded, req.facts)
                  /\ rules[1].name = "drop unknown" =>
                        /\ req.matched # None
                        /\ req.notification[1].action = S_delete
            /\ (req.pc = "done" /\ req.log_attempts = 1) => req.status = 200

\* a request carrying a section cut inside its descriptor loop was answered
\* with 200 and logged as deleted by the rule on "unknown"
C13_Witness ==
    /\ req.pc = "done"
    /\ req.status = 200
    /\ "scte35_b64" \in DOMAIN req.facts
    /\ req.facts["scte35_b64"] = Truncated(30)
    /\ req.matched # None
    /\ req.notification[1].action = S_delete
    /\ Len(events) >= 1
    /\ events[Len(events)].action = S_delete

\* params.build.command when it is a string
BuildCommandOf(params) ==
    IF "build" \in DOMAIN params
       /\ "command" \in DOMAIN params["build"]
       /\ "str" \in DOMAIN params["build"]["command"]
    THEN Some(params["build"]["command"].str)
    ELSE None

\* C14: build_failed.  When the matched rule's params carry a build.command the
\* builder has no arm for, the params handed to the notification are the rule's
\* params unchanged (scte35_b64 keeps its value or stays absent); when the
\* command is known, scte35_b64 is the builder's output and every other key is
\* unchanged; either way the request, once logged, is answered with 200.
C14_BuildFailureKeepsParams ==
    (req.pc \in {"log", "done"} /\ req.matched # None
       /\ "build" \in DOMAIN req.matched[1].params_json) =>
        LET p == req.matched[1].params_json
            f == maybe_build_scte35(p)
            cmd == BuildCommandOf(p)
            known == cmd # None /\ cmd[1] \in KnownBuildCommands
            built == IF cmd[1] = S_time_signal_immediate
                     THEN build_time_signal_immediate_b64
                     ELSE build_splice_insert_out_b64(
                              IF "duration_s" \in DOMAIN p["build"]
                              THEN p["build"]["duration_s"].num ELSE 0)
        IN  /\ ~known => f = p
            /\ known => /\ DOMAIN f = DOMAIN p \cup {"scte35_b64"}
                        /\ f["scte35_b64"] = built
                        /\ \A k \in DOMAIN p \ {"scte35_b64"} : f[k] = p[k]
            /\ req.notification[1].BinaryData =
                  (IF "scte35_b64" \in DOMAIN f THEN Some(xml_escape(f["scte35_b64"]))
                   ELSE None)
            /\ (req.pc = "done" /\ req.log_attempts = 1) => req.status = 200

\* a rule asking for the unknown command "bogus" matched: the response carries
\* the scte35_b64 the rule already had
C14_Witness ==
    /\ req.pc = "done"
    /\ req.status = 200
    /\ req.matched # None
    /\ BuildCommandOf(req.matched[1].params_json) = Some(S_bogus)
    /\ req.notification[1].BinaryData = Some(S_b64_rule)

-----------------------------------------------------------------------------
(* Claims about repeated delivery, checked under Spec *)

\* the notification handle_esam_impl returns when the rules query hands back
\* the rows in order s
NotificationFor(s) ==
    response_xml(match_loop([i \in 1..Len(s) |-> rules[s[i]]], req.facts), req.facts)

-----------------------------------------------------------------------------
(* Claims about the facts read from the XML, checked under Spec *)

\* the body has an element, written as a start tag or self-closing, whose name
\* ends with name and which carries the attribute key with value val
HasAttribute(body, name, key, val) ==
    \E i \in 1..Len(body.xml) :
        /\ body.xml[i].ev \in {"Start", "Empty"}
        /\ ends_with(body.xml[i].name, name)
        /\ \E j \in 1..Len(body.xml[i].attrs) : body.xml[i].attrs[j] = <<key, val>>

\* the attribute values the request bodies carry
AttributeValues == {S_ACQ_123_OUT, S_ACQ_OUT_EXTRA, S_utc2024}

\* what the claim expects of the request r that the handler made of body
ExtractedFrom(body, r) ==
    /\ \A val \in AttributeValues :
          HasAttribute(body, N_AcquiredSignal, K_acquisitionSignalID, val) =>
              /\ r.pc = "lookup"
              /\ r.facts["acquisitionSignalID"] = val
    /\ r.pc = "lookup" =>
          /\ \A val \in AttributeValues :
                HasAttribute(body, N_UTCPoint, K_utcPoint, val) => r.facts["utcPoint"] = val
          /\ (\A val \in AttributeValues : ~HasAttribute(body, N_UTCPoint, K_utcPoint, val))
                => r.facts["utcPoint"] = S_epoch

\* C17 (as claimed): the fact utcPoint is the utcPoint attribute of the UTCPoint
\* element and acquisitionSignalID that of the AcquiredSignal element, whether the
\* element is a start/end tag pair or self-closing; the epoch default is used
\* only when there is no utcPoint attribute.
C17_SelfClosingExtracted ==
    [][\A a \in Addressing, b \in Bodies :
          (b.xml[Len(b.xml)] # XmlErr /\ EsamStart(a, b)) => ExtractedFrom(b, req')]_vars

-----------------------------------------------------------------------------
(* Claims about time, checked under SpecDeadline *)

\* "deadline exceeded"
S_deadline_exceeded == <<100, 101, 97, 100, 108, 105, 110, 101, 32, 101, 120, 99, 101, 101, 100, 101, 100>>

\* C15 (as claimed): a request is answered within 30 seconds of its start (three
\* ticks of the clock), and an answer given after processing exceeded 30 seconds
\* is HTTP 504 with an EventRecord whose error_message is "deadline exceeded".
C15_HardDeadline ==
    /\ [](req.pc \in {"lookup", "load", "log"} => clock - req.start <= 3)
    /\ [][(req.pc \in {"lookup", "load", "log"} /\ req'.pc = "done"
            /\ clock - req.start > 3)
          => /\ req'.status = 504
             /\ Len(events') = Len(events) + 1
             /\ events'[Len(events')].error_message = Some(S_deadline_exceeded)]_vars

-----------------------------------------------------------------------------
(* Claims about building and decoding sections, checked under SpecCodec *)

\* d * 90000 as a high part and its low 16 bits, from 90000 = 65536 + 24464
TicksLow16(d) == (d * 24464) % 65536
TicksHigh(d) == d + ((d * 24464) \div 65536)

\* the decoded 64-bit number is d * 90000
IsTicksOf(number, d) ==
    /\ \A i \in 1..17 : number.u64[i] = 0
    /\ nat_of(SubSeq(number.u64, 18, 48)) = TicksHigh(d)
    /\ nat_of(SubSeq(number.u64, 49, 64)) = TicksLow16(d)

\* the splice_insert the tools decoder reports carries d seconds of break
\* and the three flags of an immediate OUT with auto return
DecodedBreakOf(out, d) ==
    /\ out.command_type = S_splice_insert
    /\ out.command_info.command = S_splice_insert
    /\ "break_duration" \in DOMAIN out.command_info
    /\ IsTicksOf(out.command_info.break_duration.duration_ticks, d)
    /\ out.command_info.break_duration.auto_return = TRUE
    /\ out.command_info.out_of_network_indicator = TRUE
    /\ out.command_info.splice_immediate_flag = TRUE

\* C19: for every duration_seconds d in [0, 47721], decoding the section that
\* splice_insert_out builds for d yields command splice_insert with
\* break_duration.duration_ticks = d * 90000, auto_return = 1,
\* out_of_network = 1 and splice_immediate = 1, and the section is the one
\* build_splice_insert_out_b64(d) returns.
C19_DurationRoundTrip ==
    (c_pc = "tools" /\ c_in \in DurationRequests /\ c_in.duration_seconds # None
        /\ c_in.duration_seconds[1] \in 0..MaxDurationSeconds)
    => /\ c_sec = build_splice_insert_out_b64(c_in.duration_seconds[1])
       /\ c_out.ok
       /\ DecodedBreakOf(c_out.out, c_in.duration_seconds[1])

\* the longest duration of the claim has been built and decoded: 47721 s are
\* 4 294 890 000 ticks, 65534 * 65536 + 53776
C19_Witness ==
    /\ c_pc = "tools"
    /\ c_in \in DurationRequests
    /\ c_in.duration_seconds = Some(MaxDurationSeconds)
    /\ c_out.ok
    /\ IsTicksOf(c_out.out.command_info.break_duration.duration_ticks, MaxDurationSeconds)

\* the command name and the PTS both decoders are to report for a section
\* assembled by hand
ExpectedCommand(kind) ==
    CASE kind = "splice_null" -> S_splice_null
      [] kind \in {"splice_insert_out", "splice_insert_pts"} -> S_splice_insert
      [] kind \in {"time_signal_immediate", "time_signal_pts"} -> S_time_signal
      [] kind = "bandwidth_reservation" -> S_bandwidth_reservation
ExpectedPts(kind) ==
    IF kind \in {"time_signal_pts", "splice_insert_pts"} THEN Some(U64(900000)) ELSE None

\* what decode_scte35_details is to report for the section
EsamFactsOf(kind) ==
    [command |-> Some(ExpectedCommand(kind)),
     pts_time |-> ExpectedPts(kind),
     segmentation_type_id |-> Some(52),
     segmentation_upid_with_type |-> Some(<<12, S_POIS_OUT>>)]

\* what decode_scte35_internal is to report for the section: the command, the
\* PTS where the command carries one, and the one descriptor read in full
ToolsFactsAre(out, kind) ==
    /\ out.command_type = ExpectedCommand(kind)
    /\ out.command_info.command = ExpectedCommand(kind)
    /\ IF ExpectedPts(kind) = None THEN "pts_time" \notin DOMAIN out.command_info
       ELSE /\ "pts_time" \in DOMAIN out.command_info
            /\ out.command_info.pts_time = JU64(ExpectedPts(kind)[1])
    /\ Len(out.descriptors) = 1
    /\ out.descriptors[1].tag = 2
    /\ out.descriptors[1].data.segmentation_type_id = FormatTypeId(52)
    /\ out.descriptors[1].data.upid_type = FormatTypeId(12)
    /\ out.descriptors[1].data.upid_value = S_POIS_OUT
    /\ out.descriptors[1].data.segments_expected = JU64(U64(0))

\* the same section with splice_command_length set to the size of the command
SizedSection(kind) == assembled_section(kind, CommandBytes(kind))

\* C18: splice_command_length is advisory.  For well-formed sections carrying
\* splice_null, splice_insert, time_signal or bandwidth_reservation that differ
\* only in splice_command_length (the size of the command, 0xFFF, or any other
\* value), each decoder returns the same command, PTS and descriptor facts;
\* descriptor_loop_length is read at the bit right after the bits the parsed
\* command used, and the descriptor is found and read in full.
C18_CommandLengthAdvisory ==
    (c_pc \in {"esam", "tools"} /\ "kind" \in DOMAIN c_in)
    => /\ c_out.ok
       /\ c_out.after_command = command_written(c_in.kind).bitpos
       /\ c_pc = "esam" =>
            /\ c_out.info = EsamFactsOf(c_in.kind)
            /\ c_out = decode_scte35_details(SizedSection(c_in.kind))
       /\ c_pc = "tools" =>
            /\ ToolsFactsAre(c_out.out, c_in.kind)
            /\ c_out = decode_scte35_internal(SizedSection(c_in.kind))

\* sections whose splice_command_length is 0xFFF and ones whose length is a
\* value that fits no command have been decoded, with a PTS among the facts
C18_Witness ==
    /\ c_pc \in {"esam", "tools"}
    /\ "kind" \in DOMAIN c_in
    /\ c_in.kind \in {"time_signal_pts", "splice_insert_pts"}
    /\ c_in.splice_command_length \in {4095, 100}
    /\ c_in.splice_command_length # CommandBytes(c_in.kind)
    /\ c_sec # SizedSection(c_in.kind)
    /\ c_out.ok
    /\ c_out.after_command = 112 + (8 * CommandBytes(c_in.kind))

\* what an advanced build request asks the descriptor to carry: the type id,
\* the UPID type (0x0C when none is given) and the UPID bytes (the builder's
\* encoding of the text, "POIS-OUT" when none is given)
RequestedTypeId(request) == parse_hex_u8(request.segmentation_type_id[1])[1]
RequestedUpidType(request) ==
    IF request.segmentation_upid_type = None THEN 12
    ELSE parse_hex_u8(request.segmentation_upid_type[1])[1]
RequestedUpid(request) ==
    IF request.segmentation_upid = None THEN S_POIS_OUT
    ELSE encode_upid(RequestedUpidType(request), request.segmentation_upid[1])

\* decode_scte35_details reports the requested descriptor
EsamDescriptorIs(info, request) ==
    /\ info.segmentation_type_id = Some(RequestedTypeId(request))
    /\ info.segmentation_upid_with_type =
          Some(<<RequestedUpidType(request), RequestedUpid(request)>>)

\* decode_scte35_internal reports exactly one descriptor, the requested one
ToolsDescriptorIs(out, request) ==
    /\ Len(out.descriptors) = 1
    /\ out.descriptors[1].tag = 2
    /\ out.descriptors[1].data.segmentation_type_id = FormatTypeId(RequestedTypeId(request))
    /\ out.descriptors[1].data.upid_type = FormatTypeId(RequestedUpidType(request))
    /\ out.descriptors[1].data.upid_value =
          format_upid(RequestedUpidType(request), RequestedUpid(request))

\* C20: for every advanced build (time_signal or splice_insert_out with
\* segmentation parameters), decoding the built section yields exactly one
\* segmentation_descriptor whose segmentation_type_id, UPID type and UPID
\* bytes equal the inputs, including type ids 0x34/0x36/0x38/0x3A and an
\* empty upid_value.
C20_AdvancedRoundTrip ==
    (c_pc \in {"esam", "tools"} /\ c_in \in AdvancedRequests)
    => /\ c_out.ok
       /\ c_pc = "esam" => EsamDescriptorIs(c_out.info, c_in)
       /\ c_pc = "tools" => ToolsDescriptorIs(c_out.out, c_in)

\* MPEG-2 CRC-32 told bit by bit: the register starts at all ones; for each
\* message bit, most significant first, the register is shifted left and the
\* polynomial 0x04C11DB7 is added when the bit shifted out differs from the
\* message bit; nothing is added at the end
Mpeg2Poly == low_bits(U64(CRC_POLY), 32)

Mpeg2Bit(reg, bit) ==
    LET shifted == Tail(reg) \o <<0>>
    IN  IF reg[1] # bit
        THEN Tup([i \in 1..32 |-> (shifted[i] + Mpeg2Poly[i]) % 2], 32)
        ELSE shifted

RECURSIVE Mpeg2Bits(_, _, _)
Mpeg2Bits(reg, bits, k) ==
    IF k > Len(bits) \/ Len(reg) # 32 THEN reg
    ELSE Mpeg2Bits(Mpeg2Bit(reg, bits[k]), bits, k + 1)

Mpeg2Byte(reg, byte) == Mpeg2Bits(reg, bits_of(<<byte>>), 1)

RECURSIVE Mpeg2From(_, _, _)
Mpeg2From(bytes, i, reg) ==
    IF i > Len(bytes) \/ Len(reg) # 32 THEN reg
    ELSE Mpeg2From(bytes, i + 1, Mpeg2Byte(reg, bytes[i]))

Mpeg2Crc(bytes) == bytes_of(Mpeg2From(bytes, 1, Tup([k \in 1..32 |-> 1], 32)))

\* the section a builder returned: whole bytes with section_length counting
\* what follows it, closed by the CRC of everything before
ClosedByCrc(section) ==
    /\ Len(section) > 7
    /\ \A i \in 1..Len(section) : section[i] \in 0..255
    /\ ((section[2] % 16) * 256) + section[3] = Len(section) - 3
    /\ \E body \in {SubSeq(section, 1, Len(section) - 4)} :
            SubSeq(section, Len(section) - 3, Len(section)) = Mpeg2Crc(body)

\* the harness state holds a section that came from a builder
FromBuilder ==
    /\ c_pc \in {"section", "esam", "tools"}
    /\ c_in \in BuildRequests \cup InBuilderCalls

\* C21: every section produced by a builder (time_signal, splice_insert_out,
\* their advanced variants, splice_insert_in) is a whole number of bytes, its
\* last 4 bytes are the big-endian MPEG-2 CRC-32 (polynomial 0x04C11DB7,
\* initial value 0xFFFFFFFF, no final XOR) of all bytes before them as they
\* stand after section_length was patched, and the decoders report its
\* command as splice_insert or time_signal.
C21_BuilderCrc ==
    FromBuilder
    => /\ \E decoded \in {b64_decode(c_sec)} :
            decoded # None /\ \E section \in {decoded[1]} : ClosedByCrc(section)
       /\ c_pc = "esam" =>
            (c_out.ok /\ c_out.info.command \in {Some(S_splice_insert), Some(S_time_signal)})
       /\ c_pc = "tools" =>
            (c_out.ok /\ c_out.out.command_type \in {S_splice_insert, S_time_signal})

\* a splice_insert IN section with a PTS, or an advanced splice_insert_out
\* section, has been built and decoded
C21_Witness ==
    /\ FromBuilder
    /\ c_pc \in {"esam", "tools"}
    /\ c_out.ok
    /\ \/ c_in \in InBuilderCalls /\ c_in.pts_time # None
       \/ c_in \in AdvancedRequests /\ c_in.command = S_splice_insert_out

\* where the segmentation descriptor of a built section begins: after the 14
\* bytes up to splice_command_type, the command (one byte of time_signal
\* flags, or the 15 bytes of a splice_insert with break_duration) and the two
\* bytes of descriptor_loop_length
DescriptorAt(section) == 14 + (IF section[14] = 6 THEN 1 ELSE 15) + 2 + 1

\* index of segmentation_upid_type: after tag, length, identifier, event id,
\* cancel byte, flags byte and, when its flag is set, the 40-bit duration
UpidTypeAt(section) ==
    DescriptorAt(section) + 12
      + (IF (section[DescriptorAt(section) + 11] \div 64) % 2 = 1 THEN 5 ELSE 0)

\* the section carries one segmentation descriptor whose UPID length is 0
HasEmptyUpid(section) ==
    /\ Len(section) >= UpidTypeAt(section) + 4
    /\ section[DescriptorAt(section)] = 2
    /\ section[UpidTypeAt(section) + 1] = 0

\* C22: when a segmentation descriptor has segmentation_upid_length = 0, the
\* decoder still reports the UPID as the pair (segmentation_upid_type, empty
\* byte list), consumes no UPID bytes, and reads segmentation_type_id from
\* the byte that follows the length byte.
C22_EmptyUpidReported ==
    (c_pc \in {"esam", "tools"} /\ c_in \in AdvancedRequests)
    => \E section \in {b64_decode(c_sec)[1]} :
          HasEmptyUpid(section)
          => /\ c_out.ok
             /\ c_pc = "esam" =>
                  /\ c_out.info.segmentation_upid_with_type
                        = Some(<<section[UpidTypeAt(section)], <<>>>>)
                  /\ c_out.info.segmentation_type_id
                        = Some(section[UpidTypeAt(section) + 2])
             /\ c_pc = "tools" =>
                  /\ Len(c_out.out.descriptors) = 1
                  /\ c_out.out.descriptors[1].data.upid_type
                        = FormatTypeId(section[UpidTypeAt(section)])
                  /\ c_out.out.descriptors[1].data.upid_value = S_empty_upid
                  /\ c_out.out.descriptors[1].data.segmentation_type_id
                        = FormatTypeId(section[UpidTypeAt(section) + 2])

\* the 12-bit splice_command_length of a section: low half of byte 12, byte 13
CommandLengthField(section) == ((section[12] % 16) * 256) + section[13]

\* bytes of the command after splice_command_type (byte 14) as the decoders
\* walk it: up to the bit where descriptor_loop_length begins
CommandBodyBytes(after_command) == (after_command \div 8) - 14

\* C25: in every section produced by a builder, the patched 12-bit
\* splice_command_length equals the number of bytes of the command body, the
\* bytes that follow the 8-bit splice_command_type and precede
\* descriptor_loop_length (1 for the immediate time_signal, 15 for
\* splice_insert_out with break_duration).
C25_CommandLengthIsBody ==
    (FromBuilder /\ c_pc \in {"esam", "tools"} /\ c_out.ok)
    => \E section \in {b64_decode(c_sec)[1]} :
          /\ CommandLengthField(section) = CommandBodyBytes(c_out.after_command)
          /\ (c_in \in BuildRequests /\ section[14] = 6) => CommandLengthField(section) = 1
          /\ (c_in \in BuildRequests /\ section[14] = 5) => CommandLengthField(section) = 15

\* d * 90000 for d below 2^24, as a number of 65536 and a rest: with
\* d = dh * 4096 + dl and 90000 = 65536 + 24464, no product leaves 31 bits
WideTicksRest(d) == (((d \div 4096) * 24464) % 16) * 4096 + ((d % 4096) * 24464)
WideTicksLow16(d) == WideTicksRest(d) % 65536
WideTicksHigh(d) ==
    d + (((d \div 4096) * 24464) \div 16) + (WideTicksRest(d) \div 65536)

\* the decoded 64-bit number is d * 90000
IsWideTicksOf(number, d) ==
    /\ \A i \in 1..17 : number.u64[i] = 0
    /\ nat_of(SubSeq(number.u64, 18, 48)) = WideTicksHigh(d)
    /\ nat_of(SubSeq(number.u64, 49, 64)) = WideTicksLow16(d)

\* duration_s the splice_insert_out builder is called with
DurationOf(request) ==
    IF request.duration_seconds = None THEN 60 ELSE request.duration_seconds[1]

\* C30: for every duration_s given to the splice_insert_out builder, the
\* 33-bit break_duration of the splice_insert command and the 40-bit
\* segmentation_duration of the attached segmentation descriptor encode the
\* same number of 90 kHz ticks, duration_s * 90000, neither field truncated.
C30_DurationFieldsAgree ==
    (c_pc = "tools" /\ c_in \in BuildRequests /\ c_in.command = S_splice_insert_out)
    => /\ c_out.ok
       /\ "break_duration" \in DOMAIN c_out.out.command_info
       /\ IsWideTicksOf(c_out.out.command_info.break_duration.duration_ticks,
                        DurationOf(c_in))
       /\ Len(c_out.out.descriptors) = 1
       /\ c_out.out.descriptors[1].data.segmentation_duration_ticks # None
       /\ IsWideTicksOf(c_out.out.descriptors[1].data.segmentation_duration_ticks[1],
                        DurationOf(c_in))

-----------------------------------------------------------------------------
(* Claims about the bit cursor, checked under SpecReader *)

\* C27: over any sequence of read_bits and skip_bits calls on a buffer of n
\* bytes the cursor never decreases, after every call that returns success
\* the cursor is at most 8 * n, and a read or skip that would move the cursor
\* past bit 8 * n returns the out-of-bounds error instead of succeeding.
C27_CursorInvariants ==
    c_pc = "reader"
    => /\ c_out.bitpos >= c_out.before
       /\ c_out.ok => c_out.bitpos <= 8 * Len(c_in)
       /\ (c_out.call # "new" /\ c_out.before + c_out.nbits > 8 * Len(c_in)) => ~c_out.ok

-----------------------------------------------------------------------------
(* Claims about glob_match, checked under SpecGlob *)

\* text = pre ++ m ++ post for some m, the pattern being pre ++ "*" ++ post
\* with its only '*' at index star
Spliced(pat, star, text) ==
    \E n \in 0..Len(text) :
        /\ Len(text) = (star - 1) + n + (Len(pat) - star)
        /\ SubSeq(text, 1, star - 1) = SubSeq(pat, 1, star - 1)
        /\ SubSeq(text, star + n, Len(text)) = SubSeq(pat, star + 1, Len(pat))

\* C28: for a pattern pre*post with a single '*', glob_match(pattern, text)
\* is true if and only if text = pre ++ m ++ post for some possibly empty
\* string m; a text shorter than len(pre) + len(post), in which prefix and
\* suffix would overlap ('ACQ-OUT' against 'ACQ-*-OUT'), does not match.  A
\* pattern without '*' matches only the identical text.
C28_GlobSingleWildcard ==
    m_pc = "globbed"
    => IF \E i \in 1..Len(m_doc) : m_doc[i] = 42
       THEN \A star \in 1..Len(m_doc) :
               m_doc[star] = 42 => (m_matched <=> Spliced(m_doc, star, m_facts))
       ELSE m_matched <=> (m_doc = m_facts)

-----------------------------------------------------------------------------
(* Claims about appended rules, checked under SpecAppend *)

\* the rules of row k's channel that were in the table before row k
RowsBefore(k) == {j \in 1..(k - 1) : rules[j].channel_id = rules[k].channel_id
                                       /\ ~rules[j].deleted}

\* row k lies 10 above the highest priority of the rows before it, or at 0
\* if there is none
TenAboveHighest(k) ==
    IF RowsBefore(k) = {} THEN rules[k].priority = 0
    ELSE /\ \E j \in RowsBefore(k) : rules[k].priority = rules[j].priority + 10
         /\ \A j \in RowsBefore(k) : rules[k].priority >= rules[j].priority + 10

\* the rows create_rule appended
AppendedRows == {k \in 1..Len(rules) : k > Len(SeedRules)}

\* C29: rules added to one channel by create_rule with priority -1, whether
\* the requests run one after another or concurrently, receive pairwise
\* distinct priorities, each exactly 10 above the highest priority among the
\* channel's non-deleted rules at the time of insertion (0 for the first
\* rule).  Stated for the runs in which every SELECT MAX(priority) succeeded.
C29_AppendedPrioritiesDistinct ==
    (c_pc = "append" /\ \A r \in 1..MaxAppenders : c_in[r].select_ok)
    => /\ \A k \in AppendedRows : TenAboveHighest(k)
       /\ \A k, l \in AppendedRows :
             (k # l /\ rules[k].channel_id = rules[l].channel_id)
             => rules[k].priority # rules[l].priority

-----------------------------------------------------------------------------
(* Claims about API tokens, checked under SpecToken *)

\* row t of api_tokens is unexpired today
Unexpired(t) == c_in[t].jwt.exp >= clock

\* C26: for every user and every API token record t, validate_token on the
\* JWT issued for t succeeds exactly while t is unexpired and t.revoked is
\* false; once t is revoked, validate_token on that JWT fails with 'Token
\* revoked'; revoking another token never changes the outcome for t's JWT.
\* This holds whichever user id and token id are combined.
C26_RevocationByTokenId ==
    (c_pc = "tokens" /\ c_out # EmptyObj)
    => /\ c_out.result.ok <=> (Unexpired(c_out.token) /\ ~c_in[c_out.token].revoked)
       /\ (c_in[c_out.token].revoked /\ Unexpired(c_out.token))
             => c_out.result.err = "Token revoked"

-----------------------------------------------------------------------------
(* Claims about the events API, checked under SpecEvents *)

\* rows of the channels table, as the handler read it, that are not deleted
\* and carry the name of event id
ChannelsNamed(table, id) ==
    {i \in 1..Len(table) : table[i].name = events[id].channel_name /\ ~table[i].deleted}

\* C23: every event returned to a non-admin caller by list_events or
\* get_event_detail, and every event counted for that caller by
\* get_event_stats, has a channel_name that is the name of a non-deleted
\* channel owned by that caller; events of channels owned by other users or
\* of system (owner-less) channels are never returned or counted.
C23_EventVisibility ==
    (c_pc = "events" /\ c_out # EmptyObj /\ c_out.caller.role # "admin")
    => \A k \in 1..Len(c_out.events) :
          /\ ChannelsNamed(c_out.channels, c_out.events[k]) # {}
          /\ \A i \in ChannelsNamed(c_out.channels, c_out.events[k]) :
                c_out.channels[i].owner = Some(c_out.caller.sub)

\* a non-admin caller was given or counted an event while the table held an
\* event of a channel that is not theirs
C23_Witness ==
    /\ c_pc = "events"
    /\ c_out # EmptyObj
    /\ c_out.caller.role # "admin"
    /\ c_out.events # <<>>
    /\ \E id \in 1..Len(events) :
          \E i \in ChannelsNamed(c_out.channels, id) :
             c_out.channels[i].owner # Some(c_out.caller.sub)

\* C24: for every limit value a caller supplies to the recent-events query
\* (absent, zero, negative, or larger than 1000), the effective limit passed
\* to the store is between 0 and 1000, so one call never returns more than
\* 1000 records.
C24_BoundedPageSize ==
    (c_pc = "events" /\ c_out # EmptyObj /\ c_out.handler = "list_events"
        /\ c_out.limit # None)
    => /\ c_out.limit[1] >= 0
       /\ c_out.limit[1] <= 1000
       /\ Len(c_out.events) <= 1000

=============================================================================
